---- MODULE Spec2Model ----
(***************************************************************************)
(* Model of the authentication subsystem of gtm-cli:                       *)
(*   - src/src/auth/oauth.ts           login / logout / getAccessToken     *)
(*   - src/src/auth/credentials.ts     the credential file                 *)
(*   - src/src/auth/service-account.ts service-account / ADC providers     *)
(*   - src/src/api/client.ts           the cached API client               *)
(*                                                                         *)
(* The specifications share the variables:                                 *)
(*   SpecLogin   one run of login() with its local callback listener       *)
(*   SpecAuth    a process calling getTagManagerClient() and logout()      *)
(*               between changes of the saved files and of the clock       *)
(*   SpecLoginRace  login() with requests racing for the callback signal,  *)
(*               under the fairness of the event loop                      *)
(*   SpecLoginOver  login() started over a credential file that may hold  *)
(*               the record of an earlier login                            *)
(*   SpecToken   getAccessToken() / getAuthStatus() on a stored record     *)
(*   SpecExpiry  isExpired() / needsRefresh() on a grid of times           *)
(*   SpecStore   save / load / delete of the two files as they are on disk *)
(*   SpecKey     validateServiceAccountKey() on key files of every content *)
(*   SpecUpdate  checkForUpdate() / forceCheckForUpdate() of runs of the   *)
(*               CLI, one after the other or at the same time              *)
(*   SpecPage    paginateAll() against a server answering page by page     *)
(*   SpecConfig  the configuration store and its in-memory cache           *)
(*   SpecCommands  the gtm auth login / logout / status commands and the   *)
(*               client, from any saved method and stored record           *)
(***************************************************************************)
EXTENDS Integers, Sequences, FiniteSets, TLC

----------------------------------------------------------------------------
(* Bounds of the model                                                     *)

\* requests the local listener receives during one login()
MaxRequests == 2
\* clock steps (of SignalDelayMs each) login() may wait with no timer pending
MaxTicks == 4
\* calls of getTagManagerClient() / logout() in one process
MaxCalls == 3
\* steps of ExpiredBufferMs the clock advances between operations; the
\* boundaries of the update-check interval at which the CLI is run
MaxAdvance == 2
\* minutes over which expiry times and clock readings are drawn
MaxMinutes == 15
\* calls of listFn in one paginateAll()
MaxPages == 3
\* runs of the CLI that check for an update, automatic or forced
MaxRuns == 3

----------------------------------------------------------------------------
(* Program constants                                                       *)

\* setTimeout(() => resolveCallback / rejectCallback, 100)
SignalDelayMs == 100
\* setTimeout(() => controller.abort(), 500)
ShutdownDelayMs == 500
\* needsRefresh: 10 * 60 * 1000
RefreshBufferMs == 600000
\* isExpired: 5 * 60 * 1000
ExpiredBufferMs == 300000

\* CHECK_INTERVAL_MS: 24 * 60 * 60 * 1000
CHECK_INTERVAL_MS == 86400000

OAUTH_CALLBACK_PATH == "/callback"

----------------------------------------------------------------------------
(* Values                                                                  *)

\* JavaScript null / undefined (URLSearchParams.get of a missing parameter,
\* an omitted JSON field, an unset environment variable)
Null == "<null>"

\* JavaScript truthiness of a string-or-null value
Truthy(s) == s # Null /\ s # ""

\* a || b on string-or-null values
OrElse(a, b) == IF Truthy(a) THEN a ELSE b

\* no record / no file
Absent == [absent |-> TRUE]

VARIABLES
  \* ---- login() and its listener
  pc,             \* position of login() in the flow
  state,          \* the state token generateState() returned
  listener,       \* "unbound" | "listening" | "closing" | "closed"
  browser,        \* "none" | "opened" | "failed"
  timers,         \* pending setTimeout callbacks, in order of creation
  callback,       \* callbackPromise: pending, resolved(code) or rejected(msg)
  abortCalls,     \* number of controller.abort() calls
  tokenRequests,  \* requests sent to the token endpoint
  tokens,         \* the TokenResponse of the exchange, or Absent
  returned,       \* the record login() returned, or Absent
  loginError,     \* the message login() rejected with, or Null
  abortedFrom,    \* the flow state login() failed in, or Null
  nRequests,      \* requests handled by the listener
  lastResponse,   \* the Response of the last request handled
  profile,        \* the UserInfo of the profile fetch, or Absent
  lastRequest,    \* the last request handled, or Absent
  firstCallback,  \* the first /callback request handled, or Absent
  mismatchSeen,   \* some /callback request carried a state other than `state`
  rejectSeen,     \* some /callback request was answered with a rejection
  \* ---- shared
  now,            \* Date.now(), milliseconds
  credFile,       \* the credential file: a StoredCredentials or Absent
  credWrites,     \* number of saveCredentials() calls
  \* ---- the process that uses the credentials
  envKeyPath,     \* GOOGLE_APPLICATION_CREDENTIALS, Null when unset
  authMethodFile, \* auth-method.json: an AuthMethodConfig or Absent
  keyFiles,       \* the key files on disk, by path
  cachedClient,   \* client.ts cachedClient: a handle or Absent
  lastAccessToken,\* client.ts lastAccessToken, Null at start
  handlesBuilt,   \* number of google.tagmanager() calls
  calls,          \* operations run so far
  lastCall,       \* what the last operation did and returned
  lastOk,         \* handle and token of the last call that returned
  prevOk,         \* handle and token of the returning call before it
  \* ---- the two files of the config directory, as they are on disk
  credDisk,       \* credentials.json: NoFile or a file with its text
  methodDisk,     \* auth-method.json: NoFile or a file with its text
  hostOs,         \* Deno.build.os
  storeCall,      \* the last operation on the files and its result; the
                  \* write of a saveCredentials() that goes on to chmod
                  \* counts as one ("writeTextFile")
  prevStoreCall,  \* the operation before it
  \* ---- the update check
  updateCache,    \* update-check.json: an UpdateCheckCache or Absent
  cacheWritable,  \* whether update-check.json can be written
  updateFetches,  \* the requests sent to the releases endpoint, in order:
                  \* the time of each and the function that sent it
  updatePending,  \* the checkForUpdate() / forceCheckForUpdate() calls
                  \* that have not returned yet (of this and of other runs
                  \* of the CLI), in call order
  updateOverlap,  \* whether some update check was called while another
                  \* one had not returned yet
  \* ---- paginateAll()
  pgStatus,       \* "idle" | "running" | "done" | "failed"
  pgToken,        \* the loop's pageToken, Null for undefined
  pgItems,        \* allResults
  pgCalls,        \* the page tokens listFn was called with, in order
  pgPages,        \* the responses listFn resolved with, in order
  \* ---- the configuration store
  cfgFile,        \* config.json: NoFile or a file with its text
  cfgCache,       \* store.ts cachedConfig: a UserConfig or Absent (null)
  \* ---- saveCredentials()
  saving          \* the saveCredentials() call that has not returned yet:
                  \* its record and the await it is at, or Absent

loginVars == <<pc, state, listener, browser, timers, callback, abortCalls,
               tokenRequests, tokens, returned, loginError, abortedFrom,
               nRequests, lastResponse, profile, lastRequest, firstCallback,
               mismatchSeen, rejectSeen>>
sharedVars == <<now, credFile, credWrites>>
authVars == <<envKeyPath, authMethodFile, keyFiles, cachedClient,
              lastAccessToken, handlesBuilt, calls, lastCall, lastOk, prevOk>>
storeVars == <<credDisk, methodDisk, hostOs, storeCall, prevStoreCall>>
updateVars == <<updateCache, cacheWritable, updateFetches, updatePending,
                updateOverlap>>
pageVars == <<pgStatus, pgToken, pgItems, pgCalls, pgPages>>
configVars == <<cfgFile, cfgCache>>
utilVars == <<updateVars, pageVars, configVars, saving>>
vars == <<loginVars, sharedVars, authVars, storeVars, utilVars>>

----------------------------------------------------------------------------
(* Inputs                                                                  *)

\* values generateState() may return (64 hex digits in the code: never empty)
StateTokens == {"s1"}

\* query parameters of a request to the listener
ErrorParams == {Null, "", "access_denied"}
CodeParams  == {Null, "", "c1"}
StateParams == {Null, "s0"} \cup StateTokens

Requests == [path : {OAUTH_CALLBACK_PATH}, code : CodeParams,
             state : StateParams, error : ErrorParams]
            \cup [path : {"/favicon.ico"}, code : {Null}, state : {Null},
                  error : {Null}]

\* answers of the token endpoint
TokenBodies == [access_token : {"A", "B"}, refresh_token : {Null, "", "R"},
                expires_in : {0, 3600}, token_type : {"Bearer"},
                scope : {"s"}]
\* answers of the profile endpoint
UserInfos == [id : {"1"}, email : {"e@x.com", "f@x.com"}, name : {"E"}]

\* what a fetch() can come to: an HTTP answer (ok or not) or a rejection
HttpOk(body)    == [kind |-> "ok", body |-> body]
HttpError(text) == [kind |-> "http_error", text |-> text]
NetworkError    == [kind |-> "network_error", text |-> "fetch failed"]

TokenOutcomes   == {HttpOk(b) : b \in TokenBodies}
                   \cup {HttpError("invalid_grant"), NetworkError}
ProfileOutcomes == {HttpOk(u) : u \in UserInfos}
                   \cup {HttpError("unauthorized"), NetworkError}

\* paths of service-account key files
KeyPaths == {"/k1", "/k2"}

\* what a key file can hold: nothing (no file), text that is not JSON, or a
\* JSON object with some of the fields of a key
KeyMissing    == [kind |-> "missing"]
KeyBadJson    == [kind |-> "badjson"]
KeyJson(type, privateKey, clientEmail) ==
  [kind |-> "json", type |-> type, private_key |-> privateKey,
   client_email |-> clientEmail]
KeyValid      == KeyJson("service_account", "PK", "sa@x.iam")
KeyWrongType  == KeyJson("authorized_user", "PK", "sa@x.iam")
KeyNoEmail    == KeyJson("service_account", "PK", Null)
KeyEmptyKey   == KeyJson("service_account", "", "sa@x.iam")
\* a file whose text is the JSON value null
KeyNull       == [kind |-> "null"]

\* every content the validation tells apart: a field is left out (Null),
\* empty or filled; a JSON value that is no object and not null (a number, a
\* string, an array) reads like an object with every field left out
KeyContents ==
  {KeyMissing, KeyBadJson, KeyNull}
  \cup {KeyJson(t, k, m) : t \in {Null, "authorized_user", "service_account"},
                          k \in {Null, "", "PK"},
                          m \in {Null, "", "sa@x.iam"}}

\* what one token mint of the google-auth library can come to
MintOutcomes == {[kind |-> "token", token |-> t] : t \in {Null, "", "A", "T"}}
                \cup {[kind |-> "throw", text |-> "invalid_grant"]}

\* the mints of a login, which does not look at the token
LoginMintOutcomes == {m \in MintOutcomes : m.kind = "throw" \/ m.token \in {Null, "T"}}

\* the input of an operation that does not get as far as the request: a
\* mint or an answer is drawn only where the operation asks for one
NoMint   == [kind |-> "none", token |-> Null, text |-> Null]
NoAnswer == [kind |-> "none", body |-> Null, text |-> Null]

\* an AuthMethodConfig; a field JSON leaves out reads as Null
AuthMethod(method, path, email) ==
  [method |-> method, serviceAccountPath |-> path,
   serviceAccountEmail |-> email]

\* answers of the token endpoint to a refresh
RefreshBodies == [access_token : {"A", "B"}, refresh_token : {Null, "R2"},
                  expires_in : {3600}, token_type : {"Bearer"},
                  scope : {"s"}]
RefreshOutcomes == {HttpOk(b) : b \in RefreshBodies}
                   \cup {HttpError("invalid_grant"), NetworkError}

\* the same with the lifetimes a token endpoint may state (an hour, or less
\* than the refresh buffer), a refresh token that is left out, empty or
\* new, and the scope granted
TokenLifetimes == {300, 3600}
LifetimeBodies == [access_token : {"B"}, refresh_token : {Null, "", "R2"},
                   expires_in : TokenLifetimes, token_type : {"Bearer"},
                   scope : {"s", "s2"}]
LifetimeOutcomes == {HttpOk(b) : b \in LifetimeBodies}
                    \cup {HttpError("invalid_grant"), NetworkError}

\* answers of the revocation endpoint
RevokeOutcomes == {HttpOk("{}"), HttpError("internal error"), NetworkError}

----------------------------------------------------------------------------
(* oauth.ts: the callback handler                                          *)

\* The three abort messages of the handler
MsgOAuthError(error) == "OAuth error: " \o error
MsgNoCode            == "No authorization code received"
MsgStateMismatch     == "State mismatch - possible CSRF attack"

\* The message of the error Deno.serve throws when port 8085 is taken
\* (Deno.errors.AddrInUse, the text of the operating system's error 98);
\* login() passes the error on unchanged
MsgAddrInUse == "Address already in use (os error 98)"

\* The two pages of the listener
getErrorHtml(error) == [html |-> "error", text |-> error]
getSuccessHtml      == [html |-> "success", text |-> Null]

\* (variant) a handler that leaves out the comparison of the state
CallbackDecision_NoStateCheck(code, returnedState, error, expected) ==
  IF Truthy(error)
    THEN [signal |-> "reject", arg |-> MsgOAuthError(error),
          page |-> getErrorHtml(error)]
  ELSE IF ~Truthy(code)
    THEN [signal |-> "reject", arg |-> MsgNoCode,
          page |-> getErrorHtml("No authorization code received")]
  ELSE [signal |-> "resolve", arg |-> code, page |-> getSuccessHtml]

\* (variant) a handler that looks at the code before the error
CallbackDecision_CodeFirst(code, returnedState, error, expected) ==
  IF ~Truthy(code)
    THEN [signal |-> "reject", arg |-> MsgNoCode,
          page |-> getErrorHtml("No authorization code received")]
  ELSE IF Truthy(error)
    THEN [signal |-> "reject", arg |-> MsgOAuthError(error),
          page |-> getErrorHtml(error)]
  ELSE IF returnedState # expected
    THEN [signal |-> "reject", arg |-> MsgStateMismatch,
          page |-> getErrorHtml("Security error: state mismatch")]
  ELSE [signal |-> "resolve", arg |-> code, page |-> getSuccessHtml]

\* What the handler does with a request to /callback: the signal it
\* schedules and the page it answers with.
CallbackDecision(code, returnedState, error, expected) ==
  IF Truthy(error)
    THEN [signal |-> "reject", arg |-> MsgOAuthError(error),
          page |-> getErrorHtml(error)]
  ELSE IF ~Truthy(code)
    THEN [signal |-> "reject", arg |-> MsgNoCode,
          page |-> getErrorHtml("No authorization code received")]
  ELSE IF returnedState # expected
    THEN [signal |-> "reject", arg |-> MsgStateMismatch,
          page |-> getErrorHtml("Security error: state mismatch")]
  ELSE [signal |-> "resolve", arg |-> code, page |-> getSuccessHtml]

----------------------------------------------------------------------------
(* oauth.ts: the calls login() makes after the callback                    *)

\* exchangeCodeForTokens / refreshAccessToken / fetchUserInfo: the value the
\* call resolves to, or the message of the Error it rejects with.
FetchResult(outcome, what) ==
  CASE outcome.kind = "ok" -> [ok |-> TRUE, value |-> outcome.body]
    [] outcome.kind = "http_error" ->
         [ok |-> FALSE, error |-> what \o outcome.text]
    [] OTHER -> [ok |-> FALSE, error |-> outcome.text]

exchangeCodeForTokens(outcome) ==
  FetchResult(outcome, "Failed to exchange code for tokens: ")

fetchUserInfo(outcome) ==
  FetchResult(outcome, "Failed to fetch user info: ")

\* (variant) expires_in taken for milliseconds
LoginCredentials_SecondsAsMs(tok, userInfo, t) ==
  [accessToken  |-> tok.access_token,
   refreshToken |-> OrElse(tok.refresh_token, ""),
   expiresAt    |-> t + tok.expires_in,
   tokenType    |-> tok.token_type,
   scope        |-> tok.scope,
   userEmail    |-> userInfo.email,
   userName     |-> userInfo.name,
   userId       |-> userInfo.id]

\* The StoredCredentials login() assembles at time t
LoginCredentials(tok, userInfo, t) ==
  [accessToken  |-> tok.access_token,
   refreshToken |-> OrElse(tok.refresh_token, ""),
   expiresAt    |-> t + tok.expires_in * 1000,
   tokenType    |-> tok.token_type,
   scope        |-> tok.scope,
   userEmail    |-> userInfo.email,
   userName     |-> userInfo.name,
   userId       |-> userInfo.id]

----------------------------------------------------------------------------
(* oauth.ts: login()                                                       *)

Pending == [status |-> "pending", value |-> Null]

\* Timers fire in order of their due time, and in order of creation among
\* those due at the same time.
IsNextTimer(i) ==
  /\ i \in 1..Len(timers)
  /\ timers[i].due <= now
  /\ \A j \in 1..Len(timers) :
       \/ timers[j].due > timers[i].due
       \/ (timers[j].due = timers[i].due /\ j >= i)

TimerDue == \E i \in 1..Len(timers) : timers[i].due <= now

RemoveAt(seq, i) == SubSeq(seq, 1, i - 1) \o SubSeq(seq, i + 1, Len(seq))

\* The delay after which the finally block of login() calls
\* controller.abort()
ShutdownTimer(t) == [due |-> t + ShutdownDelayMs, kind |-> "abort", arg |-> Null]

\* (variant) the shutdown scheduled twice
FinallyTimers_Twice(t) == <<ShutdownTimer(t), ShutdownTimer(t)>>

\* The timers the finally block of login() adds when callbackPromise
\* settles at time t
FinallyTimers(t) == <<ShutdownTimer(t)>>

\* The timer a /callback request adds at time t
SignalTimer(decision, t) ==
  [due |-> t + SignalDelayMs, kind |-> decision.signal, arg |-> decision.arg]

\* (variant) login() does not await serverReadyPromise
LoginStart_NoAwaitReady(tok, bound) ==
  /\ pc = "Idle"
  /\ state' = tok
  /\ IF bound
       THEN /\ pc' = "AwaitingUserAuthorization"
            /\ listener' = "binding"
            /\ browser' = "opened"
            /\ UNCHANGED <<loginError, abortedFrom>>
       ELSE /\ pc' = "Aborted"
            /\ abortedFrom' = pc
            /\ loginError' = MsgAddrInUse
            /\ UNCHANGED <<listener, browser>>
  /\ UNCHANGED <<timers, callback, abortCalls, tokenRequests, tokens,
                 returned, nRequests, lastResponse,
                 profile, lastRequest, firstCallback, mismatchSeen,
                 rejectSeen, sharedVars, authVars, storeVars,
                 utilVars>>

\* generateState(), getAuthorizationUrl(), Deno.serve().  Deno.serve binds
\* the port before it returns: when the port is taken (bound = FALSE) it
\* throws and login() rejects at once, no listener, no browser, no request.
\* Otherwise login() awaits serverReadyPromise.
LoginStart(tok, bound) ==
  /\ pc = "Idle"
  /\ state' = tok
  /\ IF bound
       THEN /\ pc' = "AwaitingServerReady"
            /\ listener' = "binding"
            /\ UNCHANGED <<loginError, abortedFrom>>
       ELSE /\ pc' = "Aborted"
            /\ abortedFrom' = pc
            /\ loginError' = MsgAddrInUse
            /\ UNCHANGED listener
  /\ UNCHANGED <<browser, timers, callback, abortCalls, tokenRequests, tokens,
                 returned, nRequests, lastResponse,
                 profile, lastRequest, firstCallback, mismatchSeen,
                 rejectSeen, sharedVars, authVars, storeVars,
                 utilVars>>

\* onListen: serverReady() resumes login(), which opens the browser (not
\* awaited, a failure to launch is only printed) and awaits callbackPromise.
OnListen(launched) ==
  /\ pc = "AwaitingServerReady"
  /\ listener = "binding"
  /\ listener' = "listening"
  /\ browser' = IF launched THEN "opened" ELSE "failed"
  /\ pc' = "AwaitingUserAuthorization"
  /\ UNCHANGED <<state, timers, callback, abortCalls, tokenRequests, tokens,
                 returned, loginError, abortedFrom, nRequests, lastResponse,
                 profile, lastRequest, firstCallback, mismatchSeen,
                 rejectSeen, sharedVars, authVars, storeVars,
                 utilVars>>

\* new Response("Not found", { status: 404 })
NotFoundPage == [html |-> "none", text |-> "Not found"]

\* (variant) every path is routed to the callback branch
IsCallbackPath_AnyPath(path) == TRUE

\* if (url.pathname === OAUTH_CALLBACK_PATH)
IsCallbackPath(path) == path = OAUTH_CALLBACK_PATH

\* The request handler of Deno.serve
HandleRequest(req) ==
  /\ listener = "listening"
  /\ nRequests < MaxRequests
  /\ nRequests' = nRequests + 1
  /\ lastRequest' = req
  /\ IF IsCallbackPath(req.path)
       THEN LET d == CallbackDecision(req.code, req.state, req.error, state)
            IN /\ timers' = Append(timers, SignalTimer(d, now))
               /\ lastResponse' = [status |-> 200, page |-> d.page]
               /\ firstCallback' =
                    IF firstCallback = Absent THEN req ELSE firstCallback
               /\ mismatchSeen' = (mismatchSeen \/ req.state # state)
               /\ rejectSeen' = (rejectSeen \/ d.signal = "reject")
       ELSE /\ lastResponse' = [status |-> 404, page |-> NotFoundPage]
            /\ UNCHANGED <<timers, firstCallback, mismatchSeen, rejectSeen>>
  /\ UNCHANGED <<pc, state, listener, browser, callback, abortCalls,
                 tokenRequests, tokens, returned, loginError, abortedFrom,
                 profile, sharedVars, authVars, storeVars,
                 utilVars>>

\* (variant) a promise that every resolve / reject settles anew
Settle_Overwrite(promise, kind, arg) ==
  [status |-> IF kind = "resolve" THEN "resolved" ELSE "rejected",
   value |-> arg]

\* resolveCallback(arg) / rejectCallback(arg) on callbackPromise: a promise
\* is settled by the first call, later calls do nothing.
Settle(promise, kind, arg) ==
  IF promise.status = "pending"
    THEN [status |-> IF kind = "resolve" THEN "resolved" ELSE "rejected",
          value |-> arg]
    ELSE promise

\* A setTimeout callback runs.  resolve/reject settle callbackPromise only
\* while it is pending; settling it resumes login() in its finally block.
FireTimer ==
  \E i \in 1..Len(timers) :
    /\ IsNextTimer(i)
    /\ LET t == timers[i]
           rest == RemoveAt(timers, i)
       IN IF t.kind = "abort"
            THEN /\ abortCalls' = abortCalls + 1
                 /\ listener' = IF listener = "listening" THEN "closing"
                                                          ELSE listener
                 /\ timers' = rest
                 /\ UNCHANGED callback
            ELSE /\ callback' = Settle(callback, t.kind, t.arg)
                 /\ timers' = IF callback.status = "pending"
                                THEN rest \o FinallyTimers(now)
                                ELSE rest
                 /\ UNCHANGED <<abortCalls, listener>>
    /\ UNCHANGED <<pc, state, browser, tokenRequests, tokens, returned,
                   loginError, abortedFrom, nRequests, lastResponse, profile,
                   lastRequest, firstCallback, mismatchSeen, rejectSeen,
                   sharedVars, authVars, storeVars,
                 utilVars>>

\* server.finished resolves: login() leaves the finally block, rethrows the
\* rejection or sends the token request.
ServerFinished ==
  /\ listener = "closing"
  /\ listener' = "closed"
  /\ IF callback.status = "resolved"
       THEN /\ pc' = "ExchangingCode"
            /\ tokenRequests' = tokenRequests + 1
            /\ UNCHANGED <<loginError, abortedFrom>>
       ELSE /\ pc' = "Aborted"
            /\ loginError' = callback.value
            /\ abortedFrom' = pc
            /\ UNCHANGED tokenRequests
  /\ UNCHANGED <<state, browser, timers, callback, abortCalls, tokens,
                 returned, nRequests, lastResponse, profile, lastRequest,
                 firstCallback, mismatchSeen, rejectSeen, sharedVars,
                 authVars, storeVars,
                 utilVars>>

\* The token endpoint answers (or the request fails)
\* (variant) the tokens are saved as soon as they are obtained
TokenEndpointResponds_SaveEarly(outcome) ==
  /\ pc = "ExchangingCode"
  /\ LET r == exchangeCodeForTokens(outcome)
     IN IF r.ok
          THEN /\ tokens' = r.value
               /\ pc' = "FetchingProfile"
               /\ credFile' =
                    LoginCredentials(r.value,
                                     [id |-> Null, email |-> Null,
                                      name |-> Null], now)
               /\ credWrites' = credWrites + 1
               /\ UNCHANGED <<loginError, abortedFrom>>
          ELSE /\ pc' = "Aborted"
               /\ loginError' = r.error
               /\ abortedFrom' = pc
               /\ UNCHANGED <<tokens, credFile, credWrites>>
  /\ UNCHANGED <<state, listener, browser, timers, callback, abortCalls,
                 tokenRequests, returned, nRequests, lastResponse, profile,
                 lastRequest, firstCallback, mismatchSeen, rejectSeen,
                 now, authVars, storeVars,
                 utilVars>>

TokenEndpointResponds(outcome) ==
  /\ pc = "ExchangingCode"
  /\ LET r == exchangeCodeForTokens(outcome)
     IN IF r.ok
          THEN /\ tokens' = r.value
               /\ pc' = "FetchingProfile"
               /\ UNCHANGED <<loginError, abortedFrom>>
          ELSE /\ pc' = "Aborted"
               /\ loginError' = r.error
               /\ abortedFrom' = pc
               /\ UNCHANGED tokens
  /\ UNCHANGED <<state, listener, browser, timers, callback, abortCalls,
                 tokenRequests, returned, nRequests, lastResponse, profile,
                 lastRequest, firstCallback, mismatchSeen, rejectSeen,
                 sharedVars, authVars, storeVars,
                 utilVars>>

\* a saveCredentials(credentials) call that awaits `step`
Saving(credentials, step, before) ==
  [credentials |-> credentials, step |-> step, before |-> before]

\* The profile endpoint answers (or the request fails); on success login()
\* assembles the record with Date.now() and calls saveCredentials(), which
\* awaits ensureDir: login() stays pending.
ProfileEndpointResponds(outcome) ==
  /\ pc = "FetchingProfile"
  /\ saving = Absent
  /\ LET r == fetchUserInfo(outcome)
     IN IF r.ok
          THEN /\ profile' = r.value
               /\ saving' = Saving(LoginCredentials(tokens, r.value, now),
                                   "ensureDir", credFile)
               /\ UNCHANGED <<pc, loginError, abortedFrom>>
          ELSE /\ pc' = "Aborted"
               /\ loginError' = r.error
               /\ abortedFrom' = pc
               /\ UNCHANGED <<profile, saving>>
  /\ UNCHANGED <<state, listener, browser, timers, callback, abortCalls,
                 tokenRequests, tokens, returned, nRequests, lastResponse,
                 lastRequest, firstCallback, mismatchSeen, rejectSeen,
                 sharedVars, authVars, storeVars, updateVars, pageVars,
                 configVars>>

\* saveCredentials() inside login(): ensureDir has resolved and
\* Deno.writeTextFile writes the record; the call awaits Deno.chmod and
\* login() is still pending.
LoginWritesCredentials ==
  /\ pc = "FetchingProfile"
  /\ saving # Absent
  /\ saving.step = "ensureDir"
  /\ credFile' = saving.credentials
  /\ credWrites' = credWrites + 1
  /\ saving' = [saving EXCEPT !.step = "chmod"]
  /\ UNCHANGED <<loginVars, now, authVars, storeVars, updateVars, pageVars,
                 configVars>>

\* Deno.chmod resolves: saveCredentials() returns, and login() returns the
\* record.
LoginSaveReturns ==
  /\ pc = "FetchingProfile"
  /\ saving # Absent
  /\ saving.step = "chmod"
  /\ returned' = saving.credentials
  /\ pc' = "Persisted"
  /\ saving' = Absent
  /\ UNCHANGED <<state, listener, browser, timers, callback, abortCalls,
                 tokenRequests, tokens, loginError, abortedFrom, nRequests,
                 lastResponse, profile, lastRequest, firstCallback,
                 mismatchSeen, rejectSeen, sharedVars, authVars, storeVars,
                 updateVars, pageVars, configVars>>

\* Time passes while login() waits for the callback and for the listener to
\* finish; a due timer runs before more time passes.  Waiting with no timer
\* pending is cut off after MaxTicks steps; a pending timer always comes due.
Tick ==
  /\ pc = "AwaitingUserAuthorization"
  /\ ~TimerDue
  /\ (now < MaxTicks * SignalDelayMs \/ timers # <<>>)
  /\ now' = now + SignalDelayMs
  /\ UNCHANGED <<loginVars, credFile, credWrites, authVars, storeVars,
                 utilVars>>

\* no update check was made, no pagination runs, no configuration is loaded
InitUpdateVars ==
  /\ updateCache = Absent
  /\ cacheWritable = TRUE
  /\ updateFetches = <<>>
  /\ updatePending = <<>>
  /\ updateOverlap = FALSE

InitPageVars ==
  /\ pgStatus = "idle"
  /\ pgToken = Null
  /\ pgItems = <<>>
  /\ pgCalls = <<>>
  /\ pgPages = <<>>

InitConfigVars ==
  /\ cfgFile = [kind |-> "nofile"]
  /\ cfgCache = Absent

InitUtilVars ==
  InitUpdateVars /\ InitPageVars /\ InitConfigVars /\ saving = Absent

\* no file in the config directory, no operation on it yet
InitStoreVars ==
  /\ credDisk = [kind |-> "nofile"]
  /\ methodDisk = [kind |-> "nofile"]
  /\ hostOs = "linux"
  /\ storeCall = Absent
  /\ prevStoreCall = Absent

InitLoginVars ==
  /\ pc = "Idle"
  /\ state = Null
  /\ listener = "unbound"
  /\ browser = "none"
  /\ timers = <<>>
  /\ callback = Pending
  /\ abortCalls = 0
  /\ tokenRequests = 0
  /\ tokens = Absent
  /\ returned = Absent
  /\ loginError = Null
  /\ abortedFrom = Null
  /\ nRequests = 0
  /\ lastResponse = Absent
  /\ profile = Absent
  /\ lastRequest = Absent
  /\ firstCallback = Absent
  /\ mismatchSeen = FALSE
  /\ rejectSeen = FALSE

InitLogin ==
  /\ InitLoginVars
  /\ now = 0
  /\ credFile = Absent
  /\ credWrites = 0
  /\ envKeyPath = Null
  /\ authMethodFile = Absent
  /\ keyFiles = [p \in KeyPaths |-> KeyMissing]
  /\ cachedClient = Absent
  /\ lastAccessToken = Null
  /\ handlesBuilt = 0
  /\ calls = 0
  /\ lastCall = Absent
  /\ lastOk = Absent
  /\ prevOk = Absent
  /\ InitStoreVars
  /\ InitUtilVars

NextLogin ==
  \/ \E tok \in StateTokens, bound \in BOOLEAN : LoginStart(tok, bound)
  \/ \E launched \in BOOLEAN : OnListen(launched)
  \/ \E req \in Requests : HandleRequest(req)
  \/ FireTimer
  \/ ServerFinished
  \/ \E outcome \in TokenOutcomes : TokenEndpointResponds(outcome)
  \/ \E outcome \in ProfileOutcomes : ProfileEndpointResponds(outcome)
  \/ LoginWritesCredentials
  \/ LoginSaveReturns
  \/ Tick

SpecLogin == InitLogin /\ [][NextLogin]_vars

\* One request for each branch of the handler: accepted, rejected for its
\* error, for its missing code, for its state, and one on another path
RaceRequests ==
  {[path |-> OAUTH_CALLBACK_PATH, code |-> "c1", state |-> "s1",
    error |-> Null],
   [path |-> OAUTH_CALLBACK_PATH, code |-> "c1", state |-> "s1",
    error |-> "access_denied"],
   [path |-> OAUTH_CALLBACK_PATH, code |-> Null, state |-> "s1",
    error |-> Null],
   [path |-> OAUTH_CALLBACK_PATH, code |-> "c1", state |-> "s0",
    error |-> Null],
   [path |-> "/favicon.ico", code |-> Null, state |-> Null, error |-> Null]}

\* login() with the requests that race for the callback signal
NextLoginRace ==
  \/ \E tok \in StateTokens, bound \in BOOLEAN : LoginStart(tok, bound)
  \/ \E launched \in BOOLEAN : OnListen(launched)
  \/ \E req \in RaceRequests : HandleRequest(req)
  \/ FireTimer
  \/ ServerFinished
  \/ \E outcome \in TokenOutcomes : TokenEndpointResponds(outcome)
  \/ \E outcome \in ProfileOutcomes : ProfileEndpointResponds(outcome)
  \/ LoginWritesCredentials
  \/ LoginSaveReturns
  \/ Tick

\* The event loop runs every due timer and lets time pass, server.finished
\* settles once the listener was aborted (the handler is synchronous, no
\* request stays in flight), a fetch() that was sent settles: it resolves
\* with the answer or rejects, and so do the file operations of
\* saveCredentials().
SpecLoginRace ==
  /\ InitLogin
  /\ [][NextLoginRace]_vars
  /\ WF_vars(FireTimer)
  /\ WF_vars(Tick)
  /\ WF_vars(ServerFinished)
  /\ WF_vars(\E outcome \in TokenOutcomes : TokenEndpointResponds(outcome))
  /\ WF_vars(\E outcome \in ProfileOutcomes : ProfileEndpointResponds(outcome))
  /\ WF_vars(LoginWritesCredentials)
  /\ WF_vars(LoginSaveReturns)

\* a record an earlier login left in the credential file
OldRecord ==
  [accessToken |-> "Z", refreshToken |-> "RZ", expiresAt |-> 0,
   tokenType |-> "Bearer", scope |-> "s", userEmail |-> "z@x.com",
   userName |-> "Z", userId |-> "9"]

\* login() called with or without a record already stored
InitLoginOver ==
  /\ InitLoginVars
  /\ now = 0
  /\ credFile \in {Absent, OldRecord}
  /\ credWrites = 0
  /\ envKeyPath = Null
  /\ authMethodFile = Absent
  /\ keyFiles = [p \in KeyPaths |-> KeyMissing]
  /\ cachedClient = Absent
  /\ lastAccessToken = Null
  /\ handlesBuilt = 0
  /\ calls = 0
  /\ lastCall = Absent
  /\ lastOk = Absent
  /\ prevOk = Absent
  /\ InitStoreVars
  /\ InitUtilVars

SpecLoginOver == InitLoginOver /\ [][NextLoginRace]_vars

----------------------------------------------------------------------------
(* Properties of login()                                                   *)

\* the flow states after the callback was accepted
PastCallback == {"ExchangingCode", "FetchingProfile", "Persisted"}

\* the three cases in which the handler rejects
IsErrorCase(req)    == Truthy(req.error)
IsNoCodeCase(req)   == ~Truthy(req.error) /\ ~Truthy(req.code)
IsMismatchCase(req) ==
  ~Truthy(req.error) /\ Truthy(req.code) /\ req.state # state
IsValidCallback(req) ==
  ~Truthy(req.error) /\ Truthy(req.code) /\ req.state = state

\* C1 as stated: ANY request to /callback whose state is not the generated
\* one aborts the flow (no token request, no record, no progress past the
\* callback).  Fails: such a request handled after a valid one is ignored.
C1_AnyMismatchAborts ==
  mismatchSeen =>
    /\ tokenRequests = 0
    /\ credWrites = 0
    /\ pc \notin PastCallback

\* C1 (amended): when the FIRST request to /callback carries a state that is
\* not exactly the generated one (a missing state included), login() fails:
\* callbackPromise is never resolved, no token-endpoint request is made, no
\* record is written, and once the listener has finished login() has
\* rejected.
C1_FirstMismatchAborts ==
  (firstCallback # Absent /\ firstCallback.state # state) =>
    /\ callback.status # "resolved"
    /\ tokenRequests = 0
    /\ credWrites = 0
    /\ credFile = Absent
    /\ returned = Absent
    /\ pc \notin PastCallback
    /\ (listener = "closed" => pc = "Aborted" /\ loginError # Null)

\* witness of C1: a first request with a code and a wrong state made
\* login() fail with the mismatch message
C1_Witness ==
  /\ pc = "Aborted"
  /\ firstCallback # Absent
  /\ IsMismatchCase(firstCallback)
  /\ loginError = MsgStateMismatch
  /\ tokenRequests = 0
  /\ credFile = Absent

\* a request that carries an `error` parameter, whatever its value
HasErrorParam(req) == req.error # Null

\* C2 as stated: for EVERY request to /callback that falls in one of the
\* three cases the flow aborts, and none of them ever leads to
\* ExchangingCode; the first case is an `error` parameter that is present.
\* Fails for a request handled after a valid one, and for a first request
\* whose `error` parameter is present but empty (?error=&code=c1&state=s1):
\* `if (error)` lets it pass and the flow goes on to the exchange.
C2_EveryRejectAborts ==
  /\ rejectSeen =>
       /\ pc \notin PastCallback
       /\ tokenRequests = 0
       /\ (listener = "closed" => pc = "Aborted")
  /\ (firstCallback # Absent /\ HasErrorParam(firstCallback)) =>
       /\ pc \notin PastCallback
       /\ tokenRequests = 0

\* C2 (amended): every request to /callback is answered by the precedence
\* error > missing code > state mismatch > success (the page returned), and
\* the FIRST request decides the flow by the same precedence: a non-empty
\* error aborts with the 'OAuth error' message, else a missing or empty
\* code with 'No authorization code received', else a state other than the
\* generated one with 'State mismatch'; only a first request in none of the
\* three cases leads to the exchange, and a first request whose `error`
\* parameter is empty is judged as one without `error`.  The three
\* messages are pairwise distinct.
C2_Precedence ==
  /\ \A e \in ErrorParams :
       Truthy(e) => /\ MsgOAuthError(e) # MsgNoCode
                    /\ MsgOAuthError(e) # MsgStateMismatch
  /\ MsgNoCode # MsgStateMismatch
  /\ (lastRequest # Absent /\ lastRequest.path = OAUTH_CALLBACK_PATH) =>
       /\ lastResponse.status = 200
       /\ IsErrorCase(lastRequest) =>
            lastResponse.page = getErrorHtml(lastRequest.error)
       /\ IsNoCodeCase(lastRequest) =>
            lastResponse.page = getErrorHtml("No authorization code received")
       /\ IsMismatchCase(lastRequest) =>
            lastResponse.page = getErrorHtml("Security error: state mismatch")
       /\ IsValidCallback(lastRequest) => lastResponse.page = getSuccessHtml
  /\ firstCallback # Absent =>
       /\ callback.status = "rejected" =>
            /\ IsErrorCase(firstCallback) =>
                 callback.value = MsgOAuthError(firstCallback.error)
            /\ IsNoCodeCase(firstCallback) => callback.value = MsgNoCode
            /\ IsMismatchCase(firstCallback) =>
                 callback.value = MsgStateMismatch
            /\ ~IsValidCallback(firstCallback)
       /\ callback.status = "resolved" =>
            /\ IsValidCallback(firstCallback)
            /\ callback.value = firstCallback.code
       /\ ~IsValidCallback(firstCallback) =>
            /\ pc \notin PastCallback
            /\ tokenRequests = 0
            /\ (listener = "closed" =>
                  pc = "Aborted" /\ loginError = callback.value)
  /\ (pc \in PastCallback \/ tokenRequests > 0) =>
       firstCallback # Absent /\ IsValidCallback(firstCallback)
  /\ (/\ firstCallback # Absent
      /\ firstCallback.error = ""
      /\ callback.status # "pending") =>
       callback =
         (IF ~Truthy(firstCallback.code)
            THEN [status |-> "rejected", value |-> MsgNoCode]
          ELSE IF firstCallback.state # state
            THEN [status |-> "rejected", value |-> MsgStateMismatch]
          ELSE [status |-> "resolved", value |-> firstCallback.code])

\* witness of C2: a first request with both an error and a code (and a wrong
\* state) made login() fail with the 'OAuth error' message
C2_Witness ==
  /\ pc = "Aborted"
  /\ firstCallback # Absent
  /\ Truthy(firstCallback.error)
  /\ Truthy(firstCallback.code)
  /\ firstCallback.state # state
  /\ loginError = MsgOAuthError(firstCallback.error)

\* the record of the token answer and the profile answer
IsLoginRecord(r) ==
  /\ r.accessToken = tokens.access_token
  /\ r.expiresAt = now + tokens.expires_in * 1000
  /\ r.refreshToken =
       (IF tokens.refresh_token \in {Null, ""} THEN ""
                                              ELSE tokens.refresh_token)
  /\ r.tokenType = tokens.token_type
  /\ r.scope = tokens.scope
  /\ r.userEmail = profile.email
  /\ r.userName = profile.name
  /\ r.userId = profile.id

\* C3: a valid callback, a successful token answer and a successful profile
\* answer end login() in Persisted; the stored record is the returned one,
\* with accessToken and expiresAt = now + expires_in * 1000 from the token
\* answer, refreshToken the returned one or empty, and the user fields of
\* the profile answer.  After the three answers login() does not fail:
\* until it returns it is saving that record, which is in the file from
\* the moment it is written.
C3_PersistedRecord ==
  /\ (tokens # Absent /\ profile # Absent) =>
       \/ pc = "Persisted" /\ saving = Absent
       \/ /\ pc = "FetchingProfile"
          /\ saving # Absent
          /\ returned = Absent
          /\ IsLoginRecord(saving.credentials)
          /\ credFile = (IF saving.step = "chmod" THEN saving.credentials
                                                  ELSE Absent)
  /\ pc = "Persisted" =>
       /\ tokens # Absent /\ profile # Absent
       /\ firstCallback # Absent /\ IsValidCallback(firstCallback)
       /\ credFile = returned
       /\ IsLoginRecord(credFile)
  /\ (pc = "Aborted" /\ abortedFrom = "FetchingProfile") => profile = Absent

\* witness of C3: a record with access token A, an hour of validity and no
\* refresh token was persisted some time after login() started
C3_Witness ==
  /\ pc = "Persisted"
  /\ now > 0
  /\ credFile.accessToken = "A"
  /\ tokens.expires_in = 3600
  /\ credFile.expiresAt = now + 3600000
  /\ tokens.refresh_token = Null
  /\ credFile.refreshToken = ""
  /\ credFile.userEmail = "f@x.com"

\* the steps of the flow, in order
FlowSteps ==
  {<<"Idle", "AwaitingServerReady">>,
   <<"AwaitingServerReady", "AwaitingUserAuthorization">>,
   <<"AwaitingUserAuthorization", "ExchangingCode">>,
   <<"ExchangingCode", "FetchingProfile">>,
   <<"FetchingProfile", "Persisted">>}

\* what each flow state has behind it
FlowStateOK ==
  /\ browser # "none" => listener \in {"listening", "closing", "closed"}
  /\ pc \in {"Idle", "AwaitingServerReady"} => browser = "none"
  /\ pc \in PastCallback =>
       callback.status = "resolved" /\ tokenRequests = 1
  /\ pc \in {"Idle", "AwaitingServerReady", "AwaitingUserAuthorization"} =>
       tokenRequests = 0
  /\ pc \in {"FetchingProfile", "Persisted"} => tokens # Absent
  /\ pc \in {"Idle", "AwaitingServerReady", "AwaitingUserAuthorization",
             "ExchangingCode"} => tokens = Absent

\* C9 as stated: the flow states follow one another in order and Aborted is
\* entered only from AwaitingUserAuthorization or ExchangingCode.  Fails: a
\* failed profile fetch aborts login() from FetchingProfile, and a taken
\* port aborts it from Idle.
C9_AbortedOnlyFromTwo ==
  [][/\ pc' # pc =>
          \/ <<pc, pc'>> \in FlowSteps
          \/ /\ pc' = "Aborted"
             /\ pc \in {"AwaitingUserAuthorization", "ExchangingCode"}
     /\ FlowStateOK']_vars

\* C9 (amended): login() moves through Idle, AwaitingServerReady,
\* AwaitingUserAuthorization, ExchangingCode, FetchingProfile, Persisted in
\* that order without skipping one (browser only after the listener
\* listens, token exchange only after a valid callback, profile fetch only
\* after a successful exchange), and Aborted is entered only from Idle
\* (Deno.serve cannot bind the port: no listener, no browser, no request),
\* AwaitingUserAuthorization, ExchangingCode or FetchingProfile; never from
\* AwaitingServerReady, and Aborted and Persisted are final.
C9_FlowOrder ==
  [][/\ pc' # pc =>
          \/ <<pc, pc'>> \in FlowSteps
          \/ /\ pc' = "Aborted"
             /\ pc \in {"Idle", "AwaitingUserAuthorization",
                        "ExchangingCode", "FetchingProfile"}
             /\ abortedFrom' = pc
             /\ loginError' # Null
             /\ pc = "Idle" =>
                  /\ listener' = "unbound"
                  /\ browser' = "none"
                  /\ nRequests' = 0
     /\ FlowStateOK']_vars

\* witness of C9: login() failed in FetchingProfile, after a successful
\* exchange
C9_Witness ==
  /\ pc = "Aborted"
  /\ abortedFrom = "FetchingProfile"
  /\ tokens # Absent
  /\ credFile = Absent

\* the pending calls of controller.abort()
AbortTimers == {i \in 1..Len(timers) : timers[i].kind = "abort"}

\* C10: in a run in which the callback signal fires, the shutdown of the
\* listener is scheduled and initiated exactly once, only after the signal
\* fired and the deciding request was answered; login() starts the exchange
\* or rejects only after the listener has finished, so it never ends with
\* the listener bound.  (A run in which the port could not be bound has no
\* listener and no signal: login() has failed from Idle.)
C10_ShutdownOnce ==
  /\ abortCalls + Cardinality(AbortTimers) =
       (IF callback.status = "pending" THEN 0 ELSE 1)
  /\ abortCalls >= 1 =>
       /\ callback.status # "pending"
       /\ firstCallback # Absent
       /\ lastResponse # Absent
       /\ now >= SignalDelayMs + ShutdownDelayMs
  /\ listener \in {"closing", "closed"} <=> abortCalls = 1
  /\ pc \in PastCallback \cup {"Aborted"} =>
       \/ listener = "closed"
       \/ /\ pc = "Aborted"
          /\ abortedFrom = "Idle"
          /\ callback.status = "pending"
          /\ listener = "unbound"
  /\ (pc = "AwaitingUserAuthorization" /\ callback.status # "pending") =>
       tokenRequests = 0 /\ loginError = Null

\* witness of C10: login() has failed, after one abort of the listener that
\* two requests had reached
C10_Witness ==
  /\ pc = "Aborted"
  /\ abortCalls = 1
  /\ listener = "closed"
  /\ nRequests = 2
  /\ AbortTimers = {}

\* what the handler decided for the first request to /callback
FirstDecision ==
  CallbackDecision(firstCallback.code, firstCallback.state,
                   firstCallback.error, state)

\* the settled promise a decision of the handler leads to
SettledBy(d) ==
  [status |-> IF d.signal = "resolve" THEN "resolved" ELSE "rejected",
   value |-> d.arg]

\* login() has returned or rejected
LoginEnded == pc \in {"Persisted", "Aborted"}

\* C11: whatever requests to /callback reach the listener before it shuts
\* down, the outcome of login() is the one signalled for the first of them:
\* the promise is settled by the first signal and never again, a first
\* request that rejects makes login() fail with its message, at most one
\* token request is sent and at most one record written, a request handled
\* after the first changes nothing but its own pending signal, and login()
\* ends (returns or rejects) once a request to /callback was handled.
C11_FirstRequestWins ==
  /\ [](firstCallback # Absent =>
         /\ callback.status # "pending" => callback = SettledBy(FirstDecision)
         /\ tokenRequests <= 1
         /\ credWrites <= 1
         /\ FirstDecision.signal = "reject" =>
              /\ tokenRequests = 0
              /\ credWrites = 0
              /\ LoginEnded =>
                   pc = "Aborted" /\ loginError = FirstDecision.arg
         /\ pc = "Persisted" =>
              FirstDecision.signal = "resolve" /\ credWrites = 1)
  /\ [][/\ callback.status # "pending" => callback' = callback
        /\ (firstCallback # Absent /\ nRequests' = nRequests + 1) =>
             UNCHANGED <<pc, callback, firstCallback, tokenRequests,
                         credWrites, credFile, returned, loginError,
                         listener, abortCalls>>
        /\ LoginEnded =>
             UNCHANGED <<pc, returned, loginError, credFile, credWrites,
                         tokenRequests>>]_vars
  /\ (firstCallback # Absent ~> LoginEnded)

\* witness of C11: a valid request followed by a rejected one; login() has
\* persisted one record after one token request
C11_Witness ==
  /\ pc = "Persisted"
  /\ nRequests = 2
  /\ firstCallback # Absent
  /\ IsValidCallback(firstCallback)
  /\ lastRequest.path = OAUTH_CALLBACK_PATH
  /\ ~IsValidCallback(lastRequest)
  /\ rejectSeen
  /\ tokenRequests = 1
  /\ credWrites = 1

\* C12: a request on a path other than /callback is answered with 404 and
\* changes nothing (no signal is scheduled, the promise, the flow state, the
\* listener and the credential file stay as they were), and login() leaves
\* AwaitingUserAuthorization only after a request to /callback settled the
\* promise.
C12_OtherPaths404 ==
  [][/\ (nRequests' = nRequests + 1
         /\ lastRequest'.path # OAUTH_CALLBACK_PATH) =>
          /\ lastResponse' = [status |-> 404, page |-> NotFoundPage]
          /\ UNCHANGED <<pc, callback, timers, listener, abortCalls,
                         firstCallback, tokenRequests, tokens, returned,
                         loginError, credFile, credWrites, now>>
     /\ (pc = "AwaitingUserAuthorization" /\ pc' # pc) =>
          /\ firstCallback # Absent
          /\ firstCallback.path = OAUTH_CALLBACK_PATH
          /\ callback = SettledBy(FirstDecision)]_vars

\* witness of C12: two requests on another path were answered with 404
\* while login() still waits, nothing scheduled and nothing written
C12_Witness ==
  /\ nRequests = 2
  /\ lastRequest.path # OAUTH_CALLBACK_PATH
  /\ lastResponse.status = 404
  /\ firstCallback = Absent
  /\ pc = "AwaitingUserAuthorization"
  /\ listener = "listening"
  /\ callback = Pending
  /\ timers = <<>>
  /\ credFile = Absent
  /\ now > 0

\* C26: login() writes the credential file at most once, in the
\* saveCredentials() call that is its last step: a record is written only
\* when a valid callback was received, the token exchange succeeded and the
\* profile fetch succeeded, and once it is written login() does nothing but
\* return it; until the write, and so at the end of every run that fails,
\* the credential file holds what it held when login() started, also when
\* the tokens were already obtained.
C26_PersistLast ==
  /\ [](/\ credWrites <= 1
        /\ credWrites = 1 =>
             /\ firstCallback # Absent /\ IsValidCallback(firstCallback)
             /\ tokens # Absent /\ profile # Absent
             /\ \/ pc = "Persisted" /\ credFile = returned
                \/ /\ pc = "FetchingProfile"
                   /\ saving # Absent
                   /\ saving.step = "chmod"
                   /\ credFile = saving.credentials
        /\ pc = "Persisted" => credWrites = 1
        /\ credWrites = 0 => credFile \in {Absent, OldRecord})
  /\ [][(credFile' # credFile \/ credWrites' # credWrites) =>
          /\ pc = "FetchingProfile"
          /\ saving # Absent /\ saving.step = "ensureDir"
          /\ credFile' = saving.credentials
          /\ credWrites' = credWrites + 1]_vars
  /\ [][(credWrites = 1 /\ pc' # pc) =>
          pc' = "Persisted" /\ returned' = credFile]_vars

\* a run that obtained tokens and then failed on the profile fetch, over
\* the record of an earlier login
C26_Witness ==
  /\ pc = "Aborted"
  /\ abortedFrom = "FetchingProfile"
  /\ tokens # Absent
  /\ credFile = OldRecord
  /\ credWrites = 0

----------------------------------------------------------------------------
(* credentials.ts                                                          *)

\* (variant) the comparison taken strictly
isExpired_Strict(credentials, t) == t > credentials.expiresAt - ExpiredBufferMs

isExpired(credentials, t) == t >= credentials.expiresAt - ExpiredBufferMs

needsRefresh(credentials, t) == t >= credentials.expiresAt - RefreshBufferMs

\* deleteCredentials(): the file is gone afterwards, whether it was there
deleteCredentials(file) == Absent

----------------------------------------------------------------------------
(* oauth.ts: logout() and getAccessToken()                                 *)

\* (variant) a revokeToken() that throws on a non-ok answer
revokeToken_ThrowOnStatus(outcome) ==
  IF outcome.kind # "ok"
    THEN [ok |-> FALSE, error |-> outcome.text, warned |-> FALSE]
    ELSE [ok |-> TRUE, error |-> Null, warned |-> FALSE]

\* revokeToken(): a non-ok answer is only warned about; a rejected fetch
\* rejects the call.
revokeToken(outcome) ==
  IF outcome.kind = "network_error"
    THEN [ok |-> FALSE, error |-> outcome.text, warned |-> FALSE]
    ELSE [ok |-> TRUE, error |-> Null, warned |-> outcome.kind # "ok"]

\* logout() on the credential file `file`, the revocation endpoint answering
\* the first request with o1 and the second with o2: the file afterwards,
\* the tokens sent for revocation, and the error logout() rejects with.
logout(file, o1, o2) ==
  IF file = Absent
    THEN [ok |-> TRUE, error |-> Null, file |-> deleteCredentials(file),
          revoked |-> <<>>, warnings |-> 0]
    ELSE
      LET sendA == Truthy(file.accessToken)
          rA    == revokeToken(o1)
          sendR == Truthy(file.refreshToken)
          rR    == revokeToken(IF sendA THEN o2 ELSE o1)
          sentA == IF sendA THEN <<file.accessToken>> ELSE <<>>
          warnA == IF sendA /\ rA.warned THEN 1 ELSE 0
      IN IF sendA /\ ~rA.ok
           THEN [ok |-> FALSE, error |-> rA.error, file |-> file,
                 revoked |-> sentA, warnings |-> 0]
         ELSE IF sendR /\ ~rR.ok
           THEN [ok |-> FALSE, error |-> rR.error, file |-> file,
                 revoked |-> sentA \o <<file.refreshToken>>,
                 warnings |-> warnA]
         ELSE [ok |-> TRUE, error |-> Null, file |-> deleteCredentials(file),
               revoked |-> sentA \o (IF sendR THEN <<file.refreshToken>>
                                              ELSE <<>>),
               warnings |-> warnA + (IF sendR /\ rR.warned THEN 1 ELSE 0)]

MsgNotAuthenticated == "Not authenticated. Please run 'gtm auth login' first."
MsgSessionExpired   == "Session expired. Please run 'gtm auth login' again."

refreshAccessToken(outcome) == FetchResult(outcome, "Failed to refresh token: ")

\* (variant) the refresh token of the answer is stored as it comes
RefreshedCredentials_DropRefreshToken(credentials, tok, t) ==
  [credentials EXCEPT
     !.accessToken  = tok.access_token,
     !.expiresAt    = t + tok.expires_in * 1000,
     !.refreshToken = OrElse(tok.refresh_token, "")]

\* (variant) the record is built anew from the answer
RefreshedCredentials_FromResponse(credentials, tok, t) ==
  [accessToken  |-> tok.access_token,
   refreshToken |-> OrElse(tok.refresh_token, credentials.refreshToken),
   expiresAt    |-> t + tok.expires_in * 1000,
   tokenType    |-> tok.token_type,
   scope        |-> tok.scope,
   userEmail    |-> Null,
   userName     |-> Null,
   userId       |-> Null]

\* The record getAccessToken() saves after a refresh at time t
RefreshedCredentials(credentials, tok, t) ==
  [credentials EXCEPT
     !.accessToken  = tok.access_token,
     !.expiresAt    = t + tok.expires_in * 1000,
     !.refreshToken = OrElse(tok.refresh_token, credentials.refreshToken)]

\* getAccessToken() at time t on the credential file `file`, the token
\* endpoint answering a refresh with `outcome`
\* (variant) a refresh that fails clears the stored record
getAccessToken_ClearOnFailure(file, t, outcome) ==
  IF file = Absent
    THEN [ok |-> FALSE, error |-> MsgNotAuthenticated, token |-> Null,
          file |-> file, refreshSent |-> FALSE, requests |-> 0, saved |-> 0]
  ELSE IF ~needsRefresh(file, t)
    THEN [ok |-> TRUE, error |-> Null, token |-> file.accessToken,
          file |-> file, refreshSent |-> FALSE, requests |-> 0, saved |-> 0]
  ELSE IF ~Truthy(file.refreshToken)
    THEN [ok |-> FALSE, error |-> MsgSessionExpired, token |-> Null,
          file |-> file, refreshSent |-> FALSE, requests |-> 0, saved |-> 0]
  ELSE LET r == refreshAccessToken(outcome)
       IN IF r.ok
            THEN LET updated == RefreshedCredentials(file, r.value, t)
                 IN [ok |-> TRUE, error |-> Null,
                     token |-> updated.accessToken, file |-> updated,
                     refreshSent |-> TRUE, requests |-> 1, saved |-> 1]
            ELSE [ok |-> FALSE, error |-> r.error, token |-> Null,
                  file |-> Absent, refreshSent |-> TRUE, requests |-> 1,
                  saved |-> 0]

\* (variant) after a refresh the token read at the start is returned
getAccessToken_ReturnOld(file, t, outcome) ==
  IF file = Absent
    THEN [ok |-> FALSE, error |-> MsgNotAuthenticated, token |-> Null,
          file |-> file, refreshSent |-> FALSE, requests |-> 0, saved |-> 0]
  ELSE IF ~needsRefresh(file, t)
    THEN [ok |-> TRUE, error |-> Null, token |-> file.accessToken,
          file |-> file, refreshSent |-> FALSE, requests |-> 0, saved |-> 0]
  ELSE IF ~Truthy(file.refreshToken)
    THEN [ok |-> FALSE, error |-> MsgSessionExpired, token |-> Null,
          file |-> file, refreshSent |-> FALSE, requests |-> 0, saved |-> 0]
  ELSE LET r == refreshAccessToken(outcome)
       IN IF r.ok
            THEN LET updated == RefreshedCredentials(file, r.value, t)
                 IN [ok |-> TRUE, error |-> Null,
                     token |-> file.accessToken, file |-> updated,
                     refreshSent |-> TRUE, requests |-> 1, saved |-> 1]
            ELSE [ok |-> FALSE, error |-> r.error, token |-> Null,
                  file |-> file, refreshSent |-> TRUE, requests |-> 1,
                  saved |-> 0]

\* `requests`: the requests sent to the token endpoint; `saved`: the calls
\* of saveCredentials()
getAccessToken(file, t, outcome) ==
  IF file = Absent
    THEN [ok |-> FALSE, error |-> MsgNotAuthenticated, token |-> Null,
          file |-> file, refreshSent |-> FALSE, requests |-> 0, saved |-> 0]
  ELSE IF ~needsRefresh(file, t)
    THEN [ok |-> TRUE, error |-> Null, token |-> file.accessToken,
          file |-> file, refreshSent |-> FALSE, requests |-> 0, saved |-> 0]
  ELSE IF ~Truthy(file.refreshToken)
    THEN [ok |-> FALSE, error |-> MsgSessionExpired, token |-> Null,
          file |-> file, refreshSent |-> FALSE, requests |-> 0, saved |-> 0]
  ELSE LET r == refreshAccessToken(outcome)
       IN IF r.ok
            THEN LET updated == RefreshedCredentials(file, r.value, t)
                 IN [ok |-> TRUE, error |-> Null,
                     token |-> updated.accessToken, file |-> updated,
                     refreshSent |-> TRUE, requests |-> 1, saved |-> 1]
            ELSE [ok |-> FALSE, error |-> r.error, token |-> Null,
                  file |-> file, refreshSent |-> TRUE, requests |-> 1,
                  saved |-> 0]

\* getAuthStatus() at time t on the credential file `file`; a field left
\* out of the result reads as Null
getAuthStatus(file, t) ==
  IF file = Absent
    THEN [authenticated |-> FALSE, email |-> Null, name |-> Null,
          expiresAt |-> Null, needsRefresh |-> Null]
    ELSE [authenticated |-> TRUE, email |-> file.userEmail,
          name |-> file.userName, expiresAt |-> file.expiresAt,
          needsRefresh |-> needsRefresh(file, t)]

----------------------------------------------------------------------------
(* service-account.ts                                                      *)

MsgKeyNotFound(keyPath) == "Service account key file not found: " \o keyPath
MsgKeyBadJson(keyPath) ==
  "Invalid JSON in service account key file: " \o keyPath
MsgKeyWrongType == "Invalid key file: not a service account key"
MsgKeyNoFields  == "Invalid key file: missing required fields"
\* the TypeError of reading key.type when JSON.parse returned null
MsgTypeError    == "Cannot read properties of null (reading 'type')"

validateServiceAccountKey(keyPath, files) ==
  LET f == files[keyPath]
  IN CASE f.kind = "missing" ->
            [ok |-> FALSE, error |-> MsgKeyNotFound(keyPath)]
       [] f.kind = "badjson" ->
            [ok |-> FALSE, error |-> MsgKeyBadJson(keyPath)]
       [] f.kind = "null" ->
            [ok |-> FALSE, error |-> MsgTypeError]
       [] f.type # "service_account" ->
            [ok |-> FALSE, error |-> MsgKeyWrongType]
       [] ~Truthy(f.private_key) \/ ~Truthy(f.client_email) ->
            [ok |-> FALSE, error |-> MsgKeyNoFields]
       [] OTHER -> [ok |-> TRUE, key |-> f]

\* results of getServiceAccountAccessToken(): a token with its method and
\* the key file it was minted from (Null: ambient credentials), null, or
\* the message of the Error thrown
SaToken(token, method, keyFile) ==
  [kind |-> "token", accessToken |-> token, method |-> method,
   keyFile |-> keyFile, error |-> Null, minted |-> TRUE]
SaNull == [kind |-> "null", accessToken |-> Null, method |-> Null,
           keyFile |-> Null, error |-> Null, minted |-> FALSE]
\* `minted`: the Error comes from the mint, not from what precedes it
SaError(msg, minted) ==
  [kind |-> "error", accessToken |-> Null, method |-> Null,
   keyFile |-> Null, error |-> msg, minted |-> minted]

\* new GoogleAuth({keyFile, scopes}), getClient(), getAccessToken() and the
\* check of tokenResponse.token
MintFrom(keyFile, method, what, mint) ==
  IF mint.kind = "throw" THEN SaError(mint.text, TRUE)
  ELSE IF ~Truthy(mint.token)
    THEN SaError("Failed to get access token from " \o what, TRUE)
  ELSE SaToken(mint.token, method, keyFile)

\* (variant) a key file that does not validate is passed over
ValidateAndMint_FallBack(keyPath, files, mint) ==
  LET v == validateServiceAccountKey(keyPath, files)
  IN IF ~v.ok THEN SaNull
     ELSE MintFrom(keyPath, "service-account", "service account", mint)

\* validateServiceAccountKey(keyPath), then the mint from that key file
ValidateAndMint(keyPath, files, mint) ==
  LET v == validateServiceAccountKey(keyPath, files)
  IN IF ~v.ok THEN SaError(v.error, FALSE)
     ELSE MintFrom(keyPath, "service-account", "service account", mint)

\* (variant) the environment variable decides only when nothing is saved
EnvDecides_SavedFirst(env, authMethod) == Truthy(env) /\ authMethod = Absent

\* if (envKeyPath): does the environment variable decide?
EnvDecides(env, authMethod) == Truthy(env)

getServiceAccountAccessToken(env, authMethod, files, mint) ==
  IF EnvDecides(env, authMethod)
    THEN ValidateAndMint(env, files, mint)
  ELSE IF authMethod = Absent \/ authMethod.method = "oauth"
    THEN SaNull
  ELSE IF authMethod.method = "service-account"
    THEN IF ~Truthy(authMethod.serviceAccountPath)
           THEN SaError("Service account path not configured", FALSE)
           ELSE ValidateAndMint(authMethod.serviceAccountPath, files, mint)
  ELSE IF authMethod.method = "adc"
    THEN MintFrom(Null, "adc", "ADC", mint)
  ELSE SaNull

\* loginWithServiceAccount(keyPath), the auth-method file holding `saved`:
\* the file afterwards and what the call came to. `validated`: the key file
\* passed validateServiceAccountKey(); `minted`: client.getAccessToken()
\* resolved.
\* (variant) the configuration is saved before the mint is tried
loginWithServiceAccount_SaveFirst(keyPath, files, mint, saved) ==
  LET v == validateServiceAccountKey(keyPath, files)
  IN IF ~v.ok
       THEN [ok |-> FALSE, error |-> v.error, saved |-> saved,
             validated |-> FALSE, minted |-> FALSE]
     ELSE IF mint.kind = "throw"
       THEN [ok |-> FALSE, error |-> mint.text,
             saved |-> AuthMethod("service-account", keyPath,
                                  v.key.client_email),
             validated |-> TRUE, minted |-> FALSE]
     ELSE [ok |-> TRUE, error |-> Null,
           saved |-> AuthMethod("service-account", keyPath,
                                v.key.client_email),
           validated |-> TRUE, minted |-> TRUE]

loginWithServiceAccount(keyPath, files, mint, saved) ==
  LET v == validateServiceAccountKey(keyPath, files)
  IN IF ~v.ok
       THEN [ok |-> FALSE, error |-> v.error, saved |-> saved,
             validated |-> FALSE, minted |-> FALSE]
     ELSE IF mint.kind = "throw"
       THEN [ok |-> FALSE, error |-> mint.text, saved |-> saved,
             validated |-> TRUE, minted |-> FALSE]
     ELSE [ok |-> TRUE, error |-> Null,
           saved |-> AuthMethod("service-account", keyPath,
                                v.key.client_email),
           validated |-> TRUE, minted |-> TRUE]

----------------------------------------------------------------------------
(* client.ts: getTagManagerClient()                                        *)

\* (variant) the cached client is returned whatever the token
UseCached_IgnoreToken(cached, last, token) == cached # Absent

\* if (cachedClient && lastAccessToken === token)
UseCached(cached, last, token) == cached # Absent /\ last = token

\* google.tagmanager({headers: {Authorization: `Bearer ${token}`}}): the
\* n-th handle built, bound to the token
NewHandle(n, token) == [id |-> n, bearer |-> token]

GetTagManagerClient(mint, refresh) ==
  /\ calls < MaxCalls
  /\ calls' = calls + 1
  /\ LET sa == getServiceAccountAccessToken(envKeyPath, authMethodFile,
                                           keyFiles, mint)
         oauth == getAccessToken(credFile, now, refresh)
         useOAuth == sa.kind = "null"
         resolved == sa.kind = "token" \/ (useOAuth /\ oauth.ok)
         token == IF sa.kind = "token" THEN sa.accessToken ELSE oauth.token
         error == IF sa.kind = "error" THEN sa.error ELSE oauth.error
         call == [op |-> "getTagManagerClient", ok |-> resolved,
                  error |-> IF resolved THEN Null ELSE error,
                  sa |-> sa, oauthConsulted |-> useOAuth,
                  refreshSent |-> useOAuth /\ oauth.refreshSent,
                  requests |-> IF useOAuth THEN oauth.requests ELSE 0,
                  saved |-> IF useOAuth THEN oauth.saved ELSE 0,
                  token |-> IF resolved THEN token ELSE Null,
                  answer |-> refresh,
                  savedBefore |-> authMethodFile, credBefore |-> credFile,
                  at |-> now]
     IN /\ (sa.minted <=> mint # NoMint)
        /\ ((useOAuth /\ oauth.refreshSent) <=> refresh # NoAnswer)
        /\ lastCall' = call
        /\ IF useOAuth
             THEN /\ credFile' = oauth.file
                  /\ credWrites' = credWrites + oauth.saved
             ELSE UNCHANGED <<credFile, credWrites>>
        /\ IF ~resolved
             THEN UNCHANGED <<cachedClient, lastAccessToken, handlesBuilt,
                              lastOk, prevOk>>
             ELSE LET reuse == UseCached(cachedClient, lastAccessToken, token)
                      handle == IF reuse THEN cachedClient
                                ELSE NewHandle(handlesBuilt + 1, token)
                  IN /\ cachedClient' = handle
                     /\ lastAccessToken' =
                          IF reuse THEN lastAccessToken ELSE token
                     /\ handlesBuilt' =
                          IF reuse THEN handlesBuilt ELSE handlesBuilt + 1
                     /\ prevOk' = lastOk
                     /\ lastOk' = [handle |-> handle, token |-> token]
  /\ UNCHANGED <<loginVars, storeVars, utilVars,
                 now, envKeyPath, authMethodFile,
                 keyFiles>>

\* oauth.ts getAccessToken(), called on its own
GetAccessToken(refresh) ==
  /\ calls < MaxCalls
  /\ calls' = calls + 1
  /\ LET oauth == getAccessToken(credFile, now, refresh)
     IN /\ (oauth.refreshSent <=> refresh # NoAnswer)
        /\ credFile' = oauth.file
        /\ credWrites' = credWrites + oauth.saved
        /\ lastCall' = [op |-> "getAccessToken", ok |-> oauth.ok,
                        error |-> oauth.error, token |-> oauth.token,
                        refreshSent |-> oauth.refreshSent,
                        requests |-> oauth.requests, saved |-> oauth.saved,
                        answer |-> refresh, credBefore |-> credFile,
                        at |-> now]
  /\ UNCHANGED <<loginVars, storeVars, utilVars,
                 now, envKeyPath, authMethodFile,
                 keyFiles,
                 cachedClient, lastAccessToken, handlesBuilt, lastOk, prevOk>>

\* oauth.ts getAuthStatus()
GetAuthStatus ==
  /\ calls < MaxCalls
  /\ calls' = calls + 1
  /\ lastCall' = [op |-> "getAuthStatus", ok |-> TRUE, error |-> Null,
                  status |-> getAuthStatus(credFile, now),
                  credBefore |-> credFile, at |-> now]
  /\ UNCHANGED <<loginVars, storeVars, utilVars,
                 sharedVars, envKeyPath, authMethodFile,
                 keyFiles,
                 cachedClient, lastAccessToken, handlesBuilt, lastOk, prevOk>>

\* oauth.ts logout()
Logout(o1, o2) ==
  /\ calls < MaxCalls
  /\ calls' = calls + 1
  /\ LET r == logout(credFile, o1, o2)
     IN /\ (Len(r.revoked) >= 1 <=> o1 # NoAnswer)
        /\ (Len(r.revoked) >= 2 <=> o2 # NoAnswer)
        /\ credFile' = r.file
        /\ lastCall' = [op |-> "logout", ok |-> r.ok, error |-> r.error,
                        revoked |-> r.revoked, warnings |-> r.warnings,
                        credBefore |-> credFile, answers |-> <<o1, o2>>]
  /\ UNCHANGED <<loginVars, storeVars, utilVars,
                 now, credWrites, envKeyPath,
                 authMethodFile,
                 keyFiles, cachedClient, lastAccessToken, handlesBuilt,
                 lastOk, prevOk>>

\* service-account.ts loginWithServiceAccount(keyPath)
LoginWithServiceAccount(keyPath, mint) ==
  /\ calls < MaxCalls
  /\ calls' = calls + 1
  /\ LET r == loginWithServiceAccount(keyPath, keyFiles, mint, authMethodFile)
     IN /\ (r.validated <=> mint # NoMint)
        /\ authMethodFile' = r.saved
        /\ lastCall' = [op |-> "loginWithServiceAccount", ok |-> r.ok,
                        error |-> r.error, keyPath |-> keyPath,
                        validated |-> r.validated, minted |-> r.minted,
                        savedBefore |-> authMethodFile,
                        credBefore |-> credFile]
  /\ UNCHANGED <<loginVars, storeVars, utilVars,
                 sharedVars, envKeyPath, keyFiles,
                 cachedClient,
                 lastAccessToken, handlesBuilt, lastOk, prevOk>>

\* service-account.ts loginWithADC(): `email` is the client_email
\* getCredentials() yields (Null when it has none or throws)
LoginWithADC(mint, email) ==
  /\ calls < MaxCalls
  /\ calls' = calls + 1
  /\ LET ok == mint.kind # "throw"
     IN /\ (ok \/ email = Null)
        /\ authMethodFile' =
             IF ok THEN AuthMethod("adc", Null,
                          OrElse(email, "Application Default Credentials"))
                   ELSE authMethodFile
        /\ lastCall' = [op |-> "loginWithADC", ok |-> ok,
                        error |-> IF ok THEN Null ELSE mint.text,
                        savedBefore |-> authMethodFile]
  /\ UNCHANGED <<loginVars, storeVars, utilVars,
                 sharedVars, envKeyPath, keyFiles,
                 cachedClient,
                 lastAccessToken, handlesBuilt, lastOk, prevOk>>

\* service-account.ts clearAuthMethod()
ClearAuthMethod ==
  /\ calls < MaxCalls
  /\ calls' = calls + 1
  /\ authMethodFile' = Absent
  /\ lastCall' = [op |-> "clearAuthMethod", ok |-> TRUE, error |-> Null,
                  savedBefore |-> authMethodFile]
  /\ UNCHANGED <<loginVars, storeVars, utilVars,
                 sharedVars, envKeyPath, keyFiles,
                 cachedClient,
                 lastAccessToken, handlesBuilt, lastOk, prevOk>>

\* Time passes between two operations
AdvanceClock ==
  /\ now < MaxAdvance * ExpiredBufferMs
  /\ now' = now + ExpiredBufferMs
  /\ UNCHANGED <<loginVars, credFile, credWrites, authVars, storeVars,
                 utilVars>>

\* the credential files a process may find
StoredRecords ==
  [accessToken : {"A"}, refreshToken : {"", "R"},
   expiresAt : {420000, 900000}, tokenType : {"Bearer"}, scope : {"s"},
   userEmail : {"e@x.com"}, userName : {"E"}, userId : {"1"}]

\* the auth-method files a process may find
SavedMethods ==
  {Absent, AuthMethod("oauth", Null, Null), AuthMethod("adc", Null, "adc@x")}
  \cup {AuthMethod("service-account", p, "sa@x.iam") :
          p \in KeyPaths \cup {Null}}

InitAuth ==
  /\ InitLoginVars
  /\ now = 0
  /\ credFile \in StoredRecords \cup {Absent}
  /\ credWrites = 0
  /\ envKeyPath \in {Null, "", "/k1"}
  /\ authMethodFile \in SavedMethods
  /\ keyFiles \in [KeyPaths -> {KeyValid, KeyMissing}]
  /\ cachedClient = Absent
  /\ lastAccessToken = Null
  /\ handlesBuilt = 0
  /\ calls = 0
  /\ lastCall = Absent
  /\ lastOk = Absent
  /\ prevOk = Absent
  /\ InitStoreVars
  /\ InitUtilVars

NextAuth ==
  \/ \E mint \in MintOutcomes \cup {NoMint},
        refresh \in RefreshOutcomes \cup {NoAnswer} :
       GetTagManagerClient(mint, refresh)
  \/ \E o1, o2 \in RevokeOutcomes \cup {NoAnswer} : Logout(o1, o2)
  \/ \E p \in KeyPaths, mint \in LoginMintOutcomes \cup {NoMint} :
       LoginWithServiceAccount(p, mint)
  \/ \E mint \in LoginMintOutcomes, email \in {Null, "adc@x"} :
       LoginWithADC(mint, email)
  \/ ClearAuthMethod
  \/ AdvanceClock

SpecAuth == InitAuth /\ [][NextAuth]_vars

\* service-account.ts validateServiceAccountKey(keyPath), called on its own
ValidateServiceAccountKey(keyPath) ==
  /\ calls < MaxCalls
  /\ calls' = calls + 1
  /\ LET v == validateServiceAccountKey(keyPath, keyFiles)
     IN lastCall' = [op |-> "validateServiceAccountKey", ok |-> v.ok,
                     error |-> IF v.ok THEN Null ELSE v.error,
                     key |-> IF v.ok THEN v.key ELSE Absent,
                     keyPath |-> keyPath]
  /\ UNCHANGED <<loginVars, storeVars, utilVars,
                 sharedVars, envKeyPath, authMethodFile,
                 keyFiles, cachedClient, lastAccessToken, handlesBuilt,
                 lastOk, prevOk>>

\* Key files of every content, and the validation applied to them
InitKey ==
  /\ InitLoginVars
  /\ now = 0
  /\ credFile = Absent
  /\ credWrites = 0
  /\ envKeyPath = Null
  /\ authMethodFile = Absent
  /\ keyFiles \in [KeyPaths -> KeyContents]
  /\ cachedClient = Absent
  /\ lastAccessToken = Null
  /\ handlesBuilt = 0
  /\ calls = 0
  /\ lastCall = Absent
  /\ lastOk = Absent
  /\ prevOk = Absent
  /\ InitStoreVars
  /\ InitUtilVars

NextKey == \E p \in KeyPaths : ValidateServiceAccountKey(p)

SpecKey == InitKey /\ [][NextKey]_vars

\* A process that starts with OAuth as its method and a stored record (or
\* none), and whose token endpoint answers with any of the lifetimes
InitToken ==
  /\ InitLoginVars
  /\ now = 0
  /\ credFile \in StoredRecords \cup {Absent}
  /\ credWrites = 0
  /\ envKeyPath = Null
  /\ authMethodFile \in {Absent, AuthMethod("oauth", Null, Null)}
  /\ keyFiles = [p \in KeyPaths |-> KeyValid]
  /\ cachedClient = Absent
  /\ lastAccessToken = Null
  /\ handlesBuilt = 0
  /\ calls = 0
  /\ lastCall = Absent
  /\ lastOk = Absent
  /\ prevOk = Absent
  /\ InitStoreVars
  /\ InitUtilVars

\* the mint of a key that works
MintT == [kind |-> "token", token |-> "T"]

NextToken ==
  \/ \E refresh \in LifetimeOutcomes \cup {NoAnswer} : GetAccessToken(refresh)
  \/ GetAuthStatus
  \/ \E mint \in {MintT, NoMint}, refresh \in LifetimeOutcomes \cup {NoAnswer} :
       GetTagManagerClient(mint, refresh)
  \/ \E o1, o2 \in {HttpOk("{}"), NoAnswer} : Logout(o1, o2)
  \/ LoginWithServiceAccount("/k1", MintT)
  \/ LoginWithADC(MintT, Null)
  \/ ClearAuthMethod
  \/ AdvanceClock

SpecToken == InitToken /\ [][NextToken]_vars

\* 60 * 1000
MinuteMs == 60000

\* expiry times on the minute, clock readings on the minute and one
\* millisecond before and after it
ExpiryTimes == {m * MinuteMs : m \in 0..MaxMinutes}
ClockReadings ==
  {t \in {m * MinuteMs + d : m \in 0..MaxMinutes, d \in {-1, 0, 1}} : t >= 0}

\* isExpired(credentials) and needsRefresh(credentials) on the stored record
CheckExpiry ==
  /\ credFile # Absent
  /\ calls < MaxCalls
  /\ calls' = calls + 1
  /\ lastCall' = [op |-> "expiry", ok |-> TRUE, error |-> Null,
                  isExpired |-> isExpired(credFile, now),
                  needsRefresh |-> needsRefresh(credFile, now),
                  expiresAt |-> credFile.expiresAt, at |-> now]
  /\ UNCHANGED <<loginVars, storeVars, utilVars,
                 sharedVars, envKeyPath, authMethodFile,
                 keyFiles,
                 cachedClient, lastAccessToken, handlesBuilt, lastOk, prevOk>>

InitExpiry ==
  /\ InitLoginVars
  /\ now \in ClockReadings
  /\ credFile \in [accessToken : {"A"}, refreshToken : {"R"},
                    expiresAt : ExpiryTimes, tokenType : {"Bearer"},
                    scope : {"s"}, userEmail : {"e@x.com"},
                    userName : {"E"}, userId : {"1"}]
  /\ credWrites = 0
  /\ envKeyPath = Null
  /\ authMethodFile = Absent
  /\ keyFiles = [p \in KeyPaths |-> KeyMissing]
  /\ cachedClient = Absent
  /\ lastAccessToken = Null
  /\ handlesBuilt = 0
  /\ calls = 0
  /\ lastCall = Absent
  /\ lastOk = Absent
  /\ prevOk = Absent
  /\ InitStoreVars
  /\ InitUtilVars

NextExpiry ==
  \/ CheckExpiry
  \/ GetAuthStatus

SpecExpiry == InitExpiry /\ [][NextExpiry]_vars

----------------------------------------------------------------------------
(* commands/auth.ts: gtm auth login / logout / status                      *)

\* `gtm auth status`: the statusData it puts out; a field left out reads as
\* Null
\* (variant) the saved method is looked at before the environment variable
authStatusCommand_SavedFirst(env, authMethod, file, t) ==
  IF authMethod # Absent /\ authMethod.method # "oauth"
    THEN [authenticated |-> TRUE, method |-> authMethod.method,
          source |-> Null,
          keyPath |-> IF Truthy(authMethod.serviceAccountPath)
                        THEN authMethod.serviceAccountPath ELSE Null,
          email |-> authMethod.serviceAccountEmail]
  ELSE IF Truthy(env)
    THEN [authenticated |-> TRUE, method |-> "service-account",
          source |-> "GOOGLE_APPLICATION_CREDENTIALS", keyPath |-> env,
          email |-> Null]
  ELSE LET status == getAuthStatus(file, t)
       IN [authenticated |-> status.authenticated, method |-> "oauth",
           source |-> Null, keyPath |-> Null, email |-> status.email]

authStatusCommand(env, authMethod, file, t) ==
  IF Truthy(env)
    THEN [authenticated |-> TRUE, method |-> "service-account",
          source |-> "GOOGLE_APPLICATION_CREDENTIALS", keyPath |-> env,
          email |-> Null]
  ELSE IF authMethod # Absent /\ authMethod.method # "oauth"
    THEN [authenticated |-> TRUE, method |-> authMethod.method,
          source |-> Null,
          keyPath |-> IF Truthy(authMethod.serviceAccountPath)
                        THEN authMethod.serviceAccountPath ELSE Null,
          email |-> authMethod.serviceAccountEmail]
  ELSE LET status == getAuthStatus(file, t)
       IN [authenticated |-> status.authenticated, method |-> "oauth",
           source |-> Null, keyPath |-> Null, email |-> status.email]

\* `gtm auth logout` at time t: the two files afterwards, the tokens sent
\* for revocation and the message the command fails with (exit code 1)
authLogoutCommand(authMethod, file, t, o1, o2) ==
  LET oauthStatus == getAuthStatus(file, t)
  IN IF authMethod = Absent /\ ~oauthStatus.authenticated
       THEN [ok |-> TRUE, error |-> Null, authMethod |-> authMethod,
             file |-> file, revoked |-> <<>>]
     ELSE LET r == IF oauthStatus.authenticated
                     THEN logout(file, o1, o2)
                     ELSE [ok |-> TRUE, error |-> Null, file |-> file,
                           revoked |-> <<>>, warnings |-> 0]
          IN [ok |-> r.ok,
              error |-> IF r.ok THEN Null ELSE "Logout failed: " \o r.error,
              authMethod |-> Absent, file |-> r.file, revoked |-> r.revoked]

\* what the interactive flow of login() comes to: the record it persists
\* and returns, or the message it rejects with
Authorized(tok, userInfo) ==
  [kind |-> "granted", tokens |-> tok, user |-> userInfo, text |-> Null]
AuthorizationFailed(text) ==
  [kind |-> "failed", tokens |-> Absent, user |-> Absent, text |-> text]
\* the flow is not run
NoFlow == [kind |-> "none", tokens |-> Absent, user |-> Absent, text |-> Null]

\* `gtm auth login` with neither --service-account nor --adc, at time t
authLoginCommand(file, t, flow) ==
  LET status == getAuthStatus(file, t)
  IN IF status.authenticated
       THEN [ok |-> TRUE, error |-> Null, started |-> FALSE, file |-> file,
             saved |-> 0]
     ELSE IF flow.kind = "granted"
       THEN [ok |-> TRUE, error |-> Null, started |-> TRUE,
             file |-> LoginCredentials(flow.tokens, flow.user, t),
             saved |-> 1]
     ELSE [ok |-> FALSE, error |-> "Authentication failed: " \o flow.text,
           started |-> TRUE, file |-> file, saved |-> 0]

StatusCommand ==
  /\ calls < MaxCalls
  /\ calls' = calls + 1
  /\ lastCall' = [op |-> "auth status", ok |-> TRUE, error |-> Null,
                  status |-> authStatusCommand(envKeyPath, authMethodFile,
                                               credFile, now),
                  at |-> now]
  /\ UNCHANGED <<loginVars, storeVars, utilVars,
                 sharedVars, envKeyPath, authMethodFile,
                 keyFiles, cachedClient, lastAccessToken, handlesBuilt,
                 lastOk, prevOk>>

LogoutCommand(o1, o2) ==
  /\ calls < MaxCalls
  /\ calls' = calls + 1
  /\ LET r == authLogoutCommand(authMethodFile, credFile, now, o1, o2)
     IN /\ (Len(r.revoked) >= 1 <=> o1 # NoAnswer)
        /\ (Len(r.revoked) >= 2 <=> o2 # NoAnswer)
        /\ authMethodFile' = r.authMethod
        /\ credFile' = r.file
        /\ lastCall' = [op |-> "auth logout", ok |-> r.ok, error |-> r.error,
                        revoked |-> r.revoked, savedBefore |-> authMethodFile,
                        credBefore |-> credFile, at |-> now]
  /\ UNCHANGED <<loginVars, storeVars, utilVars,
                 now, credWrites, envKeyPath, keyFiles,
                 cachedClient, lastAccessToken, handlesBuilt, lastOk, prevOk>>

LoginCommand(flow) ==
  /\ calls < MaxCalls
  /\ calls' = calls + 1
  /\ LET r == authLoginCommand(credFile, now, flow)
     IN /\ (r.started <=> flow # NoFlow)
        /\ credFile' = r.file
        /\ credWrites' = credWrites + r.saved
        /\ lastCall' = [op |-> "auth login", ok |-> r.ok, error |-> r.error,
                        started |-> r.started, flow |-> flow,
                        credBefore |-> credFile, at |-> now]
  /\ UNCHANGED <<loginVars, storeVars, utilVars,
                 now, envKeyPath, authMethodFile,
                 keyFiles, cachedClient, lastAccessToken, handlesBuilt,
                 lastOk, prevOk>>

\* the authorizations a user may give: a grant with a refresh token and an
\* hour of lifetime, or a denial
Authorizations ==
  {Authorized([access_token |-> "N", refresh_token |-> "R",
               expires_in |-> 3600, token_type |-> "Bearer", scope |-> "s"],
              [id |-> "1", email |-> "e@x.com", name |-> "E"]),
   AuthorizationFailed("OAuth error: access_denied")}

\* the answers to a refresh: a new token, a failure, or no request
CommandRefreshes ==
  {o \in RefreshOutcomes :
     o.kind = "ok" => (o.body.access_token = "B" /\ o.body.refresh_token = Null)}
  \cup {NoAnswer}

\* A user at the command line: any environment, saved method and stored
\* record, key files that are there or not
InitCommands ==
  /\ InitLoginVars
  /\ now = 0
  /\ credFile \in StoredRecords \cup {Absent}
  /\ credWrites = 0
  /\ envKeyPath \in {Null, "", "/k1"}
  /\ authMethodFile \in SavedMethods
  /\ keyFiles \in [KeyPaths -> {KeyValid, KeyMissing}]
  /\ cachedClient = Absent
  /\ lastAccessToken = Null
  /\ handlesBuilt = 0
  /\ calls = 0
  /\ lastCall = Absent
  /\ lastOk = Absent
  /\ prevOk = Absent
  /\ InitStoreVars
  /\ InitUtilVars

NextCommands ==
  \/ StatusCommand
  \/ \E o1, o2 \in RevokeOutcomes \cup {NoAnswer} : LogoutCommand(o1, o2)
  \/ \E flow \in Authorizations \cup {NoFlow} : LoginCommand(flow)
  \/ \E mint \in LoginMintOutcomes \cup {NoMint}, refresh \in CommandRefreshes :
       GetTagManagerClient(mint, refresh)
  \/ \E refresh \in CommandRefreshes : GetAccessToken(refresh)
  \/ AdvanceClock

SpecCommands == InitCommands /\ [][NextCommands]_vars

----------------------------------------------------------------------------
(* utils/update-checker.ts                                                 *)

\* A version string: whether it starts with "v", and what Number() makes of
\* each of its dot-separated parts; NaNPart stands for a part that is not a
\* number ("0-beta", "x")
NaNPart == 0 - 1
Version(v, parts) == [v |-> v, parts |-> parts]

\* `v${APP_VERSION}`
CurrentVersion == Version(TRUE, <<1, 0, 0>>)

\* partsA[i] || 0: a part that is missing, NaN or 0 counts as 0
PartOrZero(parts, i) ==
  IF i > Len(parts) THEN 0
  ELSE IF parts[i] = NaNPart THEN 0
  ELSE parts[i]

Max(a, b) == IF a >= b THEN a ELSE b

\* the loop of compareVersions from index i on
RECURSIVE CompareFrom(_, _, _)
CompareFrom(partsA, partsB, i) ==
  IF i > Max(Len(partsA), Len(partsB)) THEN 0
  ELSE IF PartOrZero(partsA, i) < PartOrZero(partsB, i) THEN 0 - 1
  ELSE IF PartOrZero(partsA, i) > PartOrZero(partsB, i) THEN 1
  ELSE CompareFrom(partsA, partsB, i + 1)

\* compareVersions(a, b): the "v" prefix is removed from both
compareVersions(a, b) == CompareFrom(a.parts, b.parts, 1)

\* an update-check.json that cannot be read or parsed
MalformedCache == [kind |-> "malformed"]

\* loadCache(): null (Absent) on every failure
loadCache(file) == IF file \in {Absent, MalformedCache} THEN Absent ELSE file

\* saveCache(): a failing write is swallowed and leaves the file as it was
saveCache(file, cache, writable) == IF writable THEN cache ELSE file

\* fetchLatestVersion(): the tag of the latest release, or null (Absent)
\* when the request fails in any way
fetchLatestVersion(outcome) ==
  IF outcome.kind = "ok" THEN outcome.body.tag_name ELSE Absent

\* (variant) a cache of exactly the interval's age is still used
UseCache_Inclusive(cache, t) ==
  cache # Absent /\ t - cache.lastCheck <= CHECK_INTERVAL_MS

\* if (cache && now - cache.lastCheck < CHECK_INTERVAL_MS)
UseCache(cache, t) ==
  cache # Absent /\ t - cache.lastCheck < CHECK_INTERVAL_MS

\* latestVersion !== null && compareVersions(currentVersion, latest) < 0
UpdateAvailable(latest) ==
  latest # Absent /\ compareVersions(CurrentVersion, latest) < 0

\* what both checks return for the latest version they know
UpdateResult(latestVersion) ==
  [updateAvailable |-> UpdateAvailable(latestVersion),
   latestVersion |-> latestVersion,
   currentVersion |-> CurrentVersion]

\* a call that has not returned: the function; where it is ("load":
\* readTextFile issued, "loaded": the file read, the call not resumed,
\* "fetch": the request sent, "save": the record built, inside saveCache()
\* before the write, "written": writeTextFile done, the call not resumed);
\* the time of the call, from "fetch" on the time the request was sent at;
\* the cache file as it read it (Absent where it did not); and from the
\* answer on the record it saves
InFlight(op, step, at, cacheBefore, record) ==
  [op |-> op, step |-> step, at |-> at, cacheBefore |-> cacheBefore,
   record |-> record]

\* what a returned call leaves in lastCall
UpdateCall(op, result, fetched, cacheBefore, at) ==
  [op |-> op, ok |-> TRUE, error |-> Null,
   updateAvailable |-> result.updateAvailable,
   latestVersion |-> result.latestVersion,
   currentVersion |-> result.currentVersion,
   fetched |-> fetched, cacheBefore |-> cacheBefore, at |-> at]

\* checkForUpdate() is called (main.ts, after the command of a run of the
\* CLI): loadCache() issues the read of update-check.json and the call
\* awaits it.  Runs of the CLI are separate processes: a call may begin
\* while another one has not returned (one such overlap is followed per
\* behaviour).
CheckForUpdate ==
  /\ calls < MaxRuns
  /\ calls' = calls + 1
  /\ updatePending # <<>> => ~updateOverlap
  /\ updateOverlap' = (updateOverlap \/ updatePending # <<>>)
  /\ updatePending' =
       Append(updatePending,
              InFlight("checkForUpdate", "load", now, Absent, Absent))
  /\ UNCHANGED <<loginVars, storeVars, sharedVars, envKeyPath, authMethodFile,
                 keyFiles, cachedClient, lastAccessToken, handlesBuilt,
                 lastCall, lastOk, prevOk, updateCache, cacheWritable,
                 updateFetches, pageVars, configVars, saving>>

\* Deno.readTextFile() of the i-th call reads update-check.json as it is
\* now; the call has not resumed yet
CacheRead(i) ==
  /\ updatePending[i].step = "load"
  /\ LET call == updatePending[i]
     IN updatePending' =
          [updatePending EXCEPT
             ![i] = InFlight(call.op, "loaded", call.at, updateCache, Absent)]
  /\ UNCHANGED <<loginVars, storeVars, sharedVars, authVars, updateCache,
                 cacheWritable, updateFetches, updateOverlap, pageVars,
                 configVars, saving>>

\* The i-th call resumes with the cache it read, and reads Date.now().
\* With a fresh cache it returns from it, with no further await.  Otherwise
\* the request is sent and the call awaits the answer.
CacheLoaded(i) ==
  /\ updatePending[i].step = "loaded"
  /\ LET call == updatePending[i]
         cache == loadCache(call.cacheBefore)
     IN IF UseCache(cache, now)
          THEN /\ lastCall' = UpdateCall(call.op,
                                         UpdateResult(cache.latestVersion),
                                         FALSE, call.cacheBefore, now)
               /\ updatePending' = RemoveAt(updatePending, i)
               /\ UNCHANGED updateFetches
          ELSE /\ updateFetches' =
                    Append(updateFetches, [at |-> now, by |-> call.op])
               /\ updatePending' =
                    [updatePending EXCEPT
                       ![i] = InFlight(call.op, "fetch", now,
                                       call.cacheBefore, Absent)]
               /\ UNCHANGED lastCall
  /\ UNCHANGED <<loginVars, storeVars, sharedVars, envKeyPath, authMethodFile,
                 keyFiles, cachedClient, lastAccessToken, handlesBuilt,
                 calls, lastOk, prevOk, updateCache, cacheWritable,
                 updateOverlap, pageVars, configVars, saving>>

\* forceCheckForUpdate() is called (gtm upgrade): the cache is not read,
\* the request is sent whatever its age and the call awaits the answer
ForceCheckForUpdate ==
  /\ calls < MaxRuns
  /\ calls' = calls + 1
  /\ updatePending # <<>> => ~updateOverlap
  /\ updateOverlap' = (updateOverlap \/ updatePending # <<>>)
  /\ updateFetches' =
       Append(updateFetches, [at |-> now, by |-> "forceCheckForUpdate"])
  /\ updatePending' =
       Append(updatePending,
              InFlight("forceCheckForUpdate", "fetch", now, Absent, Absent))
  /\ UNCHANGED <<loginVars, storeVars, sharedVars, envKeyPath, authMethodFile,
                 keyFiles, cachedClient, lastAccessToken, handlesBuilt,
                 lastCall, lastOk, prevOk, updateCache, cacheWritable,
                 pageVars, configVars, saving>>

\* The releases endpoint answers the i-th call in flight (or its request
\* fails): the call builds the record to save, a failed request as
\* latestVersion null, and awaits ensureDir() inside saveCache().
\* checkForUpdate() saves the `now` it read before the request,
\* forceCheckForUpdate() reads Date.now() at this point.
FetchAnswered(i, outcome) ==
  /\ updatePending[i].step = "fetch"
  /\ LET call == updatePending[i]
         lastCheck == IF call.op = "checkForUpdate" THEN call.at ELSE now
     IN updatePending' =
          [updatePending EXCEPT
             ![i] = InFlight(call.op, "save", call.at, call.cacheBefore,
                             [lastCheck |-> lastCheck,
                              latestVersion |-> fetchLatestVersion(outcome)])]
  /\ UNCHANGED <<loginVars, storeVars, sharedVars, authVars, updateCache,
                 cacheWritable, updateFetches, updateOverlap, pageVars,
                 configVars, saving>>

\* Deno.writeTextFile() of the i-th call writes its record, or fails and is
\* swallowed; the call has not resumed yet
SaveCacheWrites(i) ==
  /\ updatePending[i].step = "save"
  /\ LET call == updatePending[i]
     IN /\ updateCache' = saveCache(updateCache, call.record, cacheWritable)
        /\ updatePending' =
             [updatePending EXCEPT
                ![i] = InFlight(call.op, "written", call.at,
                                call.cacheBefore, call.record)]
  /\ UNCHANGED <<loginVars, storeVars, sharedVars, authVars, cacheWritable,
                 updateFetches, updateOverlap, pageVars, configVars, saving>>

\* The i-th call resumes after saveCache() and returns what it fetched
UpdateCheckReturns(i) ==
  /\ updatePending[i].step = "written"
  /\ LET call == updatePending[i]
     IN lastCall' = UpdateCall(call.op,
                               UpdateResult(call.record.latestVersion),
                               TRUE, call.cacheBefore, call.at)
  /\ updatePending' = RemoveAt(updatePending, i)
  /\ UNCHANGED <<loginVars, storeVars, sharedVars, envKeyPath, authMethodFile,
                 keyFiles, cachedClient, lastAccessToken, handlesBuilt,
                 calls, lastOk, prevOk, updateCache, cacheWritable,
                 updateFetches, updateOverlap, pageVars, configVars, saving>>

\* the times at which the CLI may be run and the awaits may resolve: 0, a
\* millisecond before the first check interval ends, and the ends of the
\* first MaxAdvance - 1 intervals
RunTimes ==
  {0, CHECK_INTERVAL_MS - 1}
  \cup {k * CHECK_INTERVAL_MS : k \in 1..(MaxAdvance - 1)}

\* Time passes until the next run of the CLI, or while a call is in
\* flight, to time t
WaitForNextRun(t) ==
  /\ t > now
  /\ now' = t
  /\ UNCHANGED <<loginVars, credFile, credWrites, authVars, storeVars,
                 utilVars>>

\* the tags a latest release may carry
ReleaseTags ==
  {Version(TRUE, <<1, 0, 0>>), Version(FALSE, <<1, 0>>),
   Version(TRUE, <<1, 0, 1>>), Version(TRUE, <<0, 9, 9>>),
   Version(FALSE, <<1, 1>>), Version(TRUE, <<1, 0, 0, 1>>),
   Version(TRUE, <<1, 0, NaNPart>>), Version(TRUE, <<1, NaNPart, 2>>)}

\* answers of the releases endpoint while the process runs: the current
\* release, a newer one, an error answer and a request that fails
ReleaseOutcomes ==
  {HttpOk([tag_name |-> v]) :
     v \in {Version(TRUE, <<1, 0, 0>>), Version(FALSE, <<1, 1>>)}}
  \cup {HttpError("rate limit exceeded"), NetworkError}

\* answers of the releases endpoint to a forced check: a newer release
\* and a request that fails
ForcedOutcomes == {HttpOk([tag_name |-> Version(FALSE, <<1, 1>>)]), NetworkError}

\* the answers a call in flight may get
AnswersFor(call) ==
  IF call.op = "checkForUpdate" THEN ReleaseOutcomes ELSE ForcedOutcomes

\* what update-check.json may hold when the process starts: nothing, text
\* that is not JSON, or the record of an earlier check with any tag
CachesOnDisk ==
  {Absent, MalformedCache}
  \cup {[lastCheck |-> 0, latestVersion |-> v] : v \in {Absent} \cup ReleaseTags}

InitUpdate ==
  /\ InitLoginVars
  /\ now = 0
  /\ credFile = Absent
  /\ credWrites = 0
  /\ envKeyPath = Null
  /\ authMethodFile = Absent
  /\ keyFiles = [p \in KeyPaths |-> KeyMissing]
  /\ cachedClient = Absent
  /\ lastAccessToken = Null
  /\ handlesBuilt = 0
  /\ calls = 0
  /\ lastCall = Absent
  /\ lastOk = Absent
  /\ prevOk = Absent
  /\ InitStoreVars
  /\ updateCache \in CachesOnDisk
  /\ cacheWritable \in BOOLEAN
  /\ updateFetches = <<>>
  /\ updatePending = <<>>
  /\ updateOverlap = FALSE
  /\ InitPageVars
  /\ InitConfigVars
  /\ saving = Absent

NextUpdate ==
  \/ CheckForUpdate
  \/ ForceCheckForUpdate
  \/ \E i \in 1..Len(updatePending) :
       \E outcome \in AnswersFor(updatePending[i]) : FetchAnswered(i, outcome)
  \/ \E i \in 1..Len(updatePending) : SaveCacheWrites(i)
  \/ \E i \in 1..Len(updatePending) : CacheRead(i)
  \/ \E i \in 1..Len(updatePending) : CacheLoaded(i)
  \/ \E i \in 1..Len(updatePending) : UpdateCheckReturns(i)
  \/ \E t \in RunTimes : WaitForNextRun(t)

SpecUpdate == InitUpdate /\ [][NextUpdate]_vars

----------------------------------------------------------------------------
(* client.ts: paginateAll()                                                *)

\* response.data of a list call: whether it has the result key with an
\* array under it (a key that is missing or null reads the same), the items
\* of that array, and nextPageToken (Null when left out)
Page(hasKey, items, next) ==
  [kind |-> "page", hasKey |-> hasKey, items |-> items, nextPageToken |-> next]

\* listFn rejects
ListError == [kind |-> "error", text |-> "Request failed"]

\* (variant) the items of a page replace those gathered so far
PushItems_Replace(allResults, page) ==
  IF page.hasKey THEN page.items ELSE allResults

\* if (items) allResults.push(...items)
PushItems(allResults, page) ==
  IF page.hasKey THEN allResults \o page.items ELSE allResults

\* pageToken = response.data.nextPageToken || undefined
NextPageToken(page) == OrElse(page.nextPageToken, Null)

\* paginateAll(listFn, key) is called
StartPaginate ==
  /\ pgStatus = "idle"
  /\ pgStatus' = "running"
  /\ pgToken' = Null
  /\ pgItems' = <<>>
  /\ UNCHANGED <<pgCalls, pgPages>>
  /\ UNCHANGED <<saving, loginVars, sharedVars, authVars, storeVars, updateVars,
                 configVars>>

\* One turn of the loop: listFn(pageToken) is called and settles with
\* `response`; the loop goes on while the new pageToken is truthy
ListPage(response) ==
  /\ pgStatus = "running"
  /\ Len(pgCalls) < MaxPages
  /\ pgCalls' = Append(pgCalls, pgToken)
  /\ IF response.kind = "error"
       THEN /\ pgStatus' = "failed"
            /\ lastCall' = [op |-> "paginateAll", ok |-> FALSE,
                            error |-> response.text, result |-> <<>>]
            /\ UNCHANGED <<pgToken, pgItems, pgPages>>
       ELSE LET allResults == PushItems(pgItems, response)
                pageToken == NextPageToken(response)
            IN /\ pgPages' = Append(pgPages, response)
               /\ pgItems' = allResults
               /\ pgToken' = pageToken
               /\ IF Truthy(pageToken)
                    THEN /\ pgStatus' = "running"
                         /\ UNCHANGED lastCall
                    ELSE /\ pgStatus' = "done"
                         /\ lastCall' = [op |-> "paginateAll", ok |-> TRUE,
                                         error |-> Null,
                                         result |-> allResults]
  /\ UNCHANGED <<saving, loginVars, sharedVars, storeVars, updateVars, configVars,
                 envKeyPath, authMethodFile, keyFiles, cachedClient,
                 lastAccessToken, handlesBuilt, calls, lastOk, prevOk>>

\* the pages a list call of the API may answer with
Pages ==
  {Page(FALSE, <<>>, next) : next \in {Null, "", "t1", "t2"}}
  \cup {Page(TRUE, items, next) :
          items \in {<<>>, <<"a">>, <<"b", "c">>},
          next \in {Null, "", "t1", "t2"}}

InitPage ==
  /\ InitLoginVars
  /\ now = 0
  /\ credFile = Absent
  /\ credWrites = 0
  /\ envKeyPath = Null
  /\ authMethodFile = Absent
  /\ keyFiles = [p \in KeyPaths |-> KeyMissing]
  /\ cachedClient = Absent
  /\ lastAccessToken = Null
  /\ handlesBuilt = 0
  /\ calls = 0
  /\ lastCall = Absent
  /\ lastOk = Absent
  /\ prevOk = Absent
  /\ InitStoreVars
  /\ InitUtilVars

NextPage ==
  \/ StartPaginate
  \/ \E response \in Pages \cup {ListError} : ListPage(response)

SpecPage == InitPage /\ [][NextPage]_vars

----------------------------------------------------------------------------
(* Properties of logout() and getTagManagerClient()                        *)

IsLogout == lastCall # Absent /\ lastCall.op = "logout"
IsGetClient == lastCall # Absent /\ lastCall.op = "getTagManagerClient"

\* the answers the revocation endpoint gave in the last logout()
RevokeAnswers ==
  {lastCall.answers[i] : i \in 1..Len(lastCall.revoked)}

\* C4: logout() with a stored record and a revocation endpoint that answers
\* every request with a non-success status completes without error and
\* leaves the credential file absent.
C4_LogoutDespiteStatus ==
  (/\ IsLogout
   /\ lastCall.credBefore # Absent
   /\ \A a \in RevokeAnswers : a.kind = "http_error") =>
     /\ lastCall.ok
     /\ lastCall.error = Null
     /\ credFile = Absent
     /\ lastCall.warnings = Len(lastCall.revoked)

\* witness of C4: both tokens were sent, both requests answered with an
\* error status, and the file is gone
C4_Witness ==
  /\ IsLogout
  /\ lastCall.credBefore # Absent
  /\ Len(lastCall.revoked) = 2
  /\ \A a \in RevokeAnswers : a.kind = "http_error"
  /\ lastCall.ok
  /\ lastCall.warnings = 2
  /\ credFile = Absent

\* C5: logout() always deletes the local record, whatever happens to the
\* revocation requests (a request that fails outright included): it
\* completes without error and the credential file is absent afterwards.
C5_LogoutAlwaysDeletes ==
  IsLogout => lastCall.ok /\ credFile = Absent

\* the client handle a call returned is identified by its id
SameHandle(a, b) == a.handle.id = b.handle.id

\* C6: a call of getTagManagerClient() returns the handle of the previous
\* returning call exactly when it resolved the same token string, and a
\* newly built handle otherwise; the cached handle is always the one built
\* with lastAccessToken as bearer token, and the handle returned is bound to
\* the token just resolved.
C6_CacheByToken ==
  /\ cachedClient # Absent => cachedClient.bearer = lastAccessToken
  /\ cachedClient = Absent <=> lastOk = Absent
  /\ lastOk # Absent =>
       /\ lastOk.handle = cachedClient
       /\ lastOk.handle.bearer = lastOk.token
       /\ lastOk.handle.id \in 1..handlesBuilt
       /\ prevOk = Absent => lastOk.handle.id = 1
       /\ prevOk # Absent =>
            /\ SameHandle(lastOk, prevOk) <=> lastOk.token = prevOk.token
            /\ ~SameHandle(lastOk, prevOk) =>
                 lastOk.handle.id = handlesBuilt /\ handlesBuilt >= 2

\* witness of C6: a call that resolved its token from the OAuth record got
\* the handle of the previous call back, after an earlier change of token
\* had built a second handle
C6_Witness ==
  /\ IsGetClient
  /\ lastCall.ok
  /\ lastCall.oauthConsulted
  /\ prevOk # Absent
  /\ SameHandle(lastOk, prevOk)
  /\ handlesBuilt = 2

\* C7: with GOOGLE_APPLICATION_CREDENTIALS set to a non-empty path the token
\* comes from that key file, validated and minted, with method
\* service-account, whatever AuthMethodConfig is saved; the saved config is
\* neither used nor modified.
C7_EnvKeyWins ==
  (IsGetClient /\ Truthy(envKeyPath)) =>
    LET v == validateServiceAccountKey(envKeyPath, keyFiles)
        sa == lastCall.sa
    IN /\ sa.kind # "null"
       /\ ~lastCall.oauthConsulted
       /\ authMethodFile = lastCall.savedBefore
       /\ ~v.ok => sa.kind = "error" /\ sa.error = v.error /\ ~sa.minted
       /\ v.ok => sa.minted
       /\ sa.kind = "token" =>
            /\ v.ok
            /\ sa.method = "service-account"
            /\ sa.keyFile = envKeyPath
            /\ lastOk.token = sa.accessToken

\* witness of C7: the environment names /k1 while the saved config says adc,
\* and the token was minted from /k1 as a service-account token
C7_Witness ==
  /\ IsGetClient
  /\ envKeyPath = "/k1"
  /\ lastCall.savedBefore # Absent
  /\ lastCall.savedBefore.method = "adc"
  /\ lastCall.sa.kind = "token"
  /\ lastCall.sa.keyFile = "/k1"
  /\ lastCall.sa.method = "service-account"
  /\ authMethodFile = lastCall.savedBefore

\* the saved config leaves the token to OAuth
SavedIsOAuth(saved) == saved = Absent \/ saved.method = "oauth"

\* C8 as stated: the OAuth record is consulted iff the environment variable
\* is UNSET and the saved method is absent or oauth; a failing provider is
\* never replaced by the OAuth token; and when neither path yields a token
\* the call fails with an instruction to run the interactive login.  Fails:
\* an empty variable counts as unset, and a failed refresh reports the token
\* endpoint's answer.
C8_OAuthIffUnset ==
  IsGetClient =>
    /\ lastCall.oauthConsulted <=>
         (envKeyPath = Null /\ SavedIsOAuth(lastCall.savedBefore))
    /\ (lastCall.sa.kind = "error") => ~lastCall.ok
    /\ (lastCall.oauthConsulted /\ ~lastCall.ok) =>
         lastCall.error \in {MsgNotAuthenticated, MsgSessionExpired}

\* C8 (amended): the OAuth record is consulted iff the environment variable
\* is unset OR EMPTY and the saved method is absent or oauth.  Otherwise a
\* key-validation or mint failure makes the call fail with that error, the
\* OAuth record is neither read nor changed, and a token returned is the
\* minted one.  When the OAuth path yields no token the call fails: with an
\* instruction to run 'gtm auth login' when no record is stored or the
\* record needs a refresh and has no refresh token, and with the token
\* endpoint's failure when the refresh request fails.
C8_ProviderPrecedence ==
  IsGetClient =>
    /\ lastCall.oauthConsulted <=>
         (~Truthy(envKeyPath) /\ SavedIsOAuth(lastCall.savedBefore))
    /\ ~lastCall.oauthConsulted =>
         /\ lastCall.ok <=> lastCall.sa.kind = "token"
         /\ credFile = lastCall.credBefore
         /\ ~lastCall.refreshSent
         /\ lastCall.sa.kind = "error" =>
              ~lastCall.ok /\ lastCall.error = lastCall.sa.error
         /\ lastCall.ok => lastOk.token = lastCall.sa.accessToken
    /\ (lastCall.oauthConsulted /\ ~lastCall.ok) =>
         /\ credFile = lastCall.credBefore
         /\ lastCall.credBefore = Absent =>
              lastCall.error = MsgNotAuthenticated
         /\ (lastCall.credBefore # Absent /\ ~lastCall.refreshSent) =>
              lastCall.error = MsgSessionExpired
         /\ lastCall.refreshSent =>
              lastCall.error \notin {MsgNotAuthenticated, MsgSessionExpired}

\* witness of C8: a service-account config whose key file is missing made
\* the call fail although a record that needs no refresh is stored
C8_Witness ==
  /\ IsGetClient
  /\ ~Truthy(envKeyPath)
  /\ lastCall.savedBefore # Absent
  /\ lastCall.savedBefore.method = "service-account"
  /\ lastCall.sa.kind = "error"
  /\ ~lastCall.ok
  /\ ~lastCall.oauthConsulted
  /\ credFile # Absent
  /\ ~needsRefresh(credFile, now)

----------------------------------------------------------------------------
(* credentials.ts / service-account.ts: the two files on disk              *)

\* no file at the path
NoFile == [kind |-> "nofile"]

\* a file: its text, its permission bits, and whether the process is denied
\* access to it (Deno.errors.PermissionDenied on read, write and remove)
DiskFile(text, mode, denied) ==
  [kind |-> "file", text |-> text, mode |-> mode, denied |-> denied]

\* the text of a file: not JSON, the JSON text null, or a JSON object with
\* its members in the order they are written
MalformedText       == [json |-> "malformed"]
NullText            == [json |-> "null"]
ObjectText(members) == [json |-> "object", members |-> members]

\* the keys of the two records, in the order the code writes them
CredentialFields ==
  <<"accessToken", "refreshToken", "expiresAt", "tokenType", "scope",
    "userEmail", "userName", "userId">>
AuthMethodFields == <<"method", "serviceAccountPath", "serviceAccountEmail">>

\* the keys that hold a number
NumberFields == {"expiresAt"}

\* a property that holds undefined
IsUndefined(value, k) == k \notin NumberFields /\ value[k] = Null

\* (variant) every falsy property is left out
Members_SkipFalsy(fields, value) ==
  LET F[i \in 0..Len(fields)] ==
        IF i = 0 THEN <<>>
        ELSE IF fields[i] \notin NumberFields /\ ~Truthy(value[fields[i]])
          THEN F[i - 1]
          ELSE Append(F[i - 1], <<fields[i], value[fields[i]]>>)
  IN F[Len(fields)]

\* JSON.stringify(value, null, 2): the members of the object, a property
\* that holds undefined left out
Members(fields, value) ==
  LET F[i \in 0..Len(fields)] ==
        IF i = 0 THEN <<>>
        ELSE IF IsUndefined(value, fields[i])
          THEN F[i - 1]
          ELSE Append(F[i - 1], <<fields[i], value[fields[i]]>>)
  IN F[Len(fields)]

JSON_stringify(fields, value) == ObjectText(Members(fields, value))

\* reading property k of a parsed object: the last member with that key,
\* undefined when there is none
Property(members, k) ==
  LET at == {i \in 1..Len(members) : members[i][1] = k}
  IN IF at = {} THEN Null
     ELSE members[CHOOSE i \in at : \A j \in at : j <= i][2]

\* JSON.parse(text) read as a record with the given keys: a SyntaxError,
\* null, or the object
JSON_parse(text, fields) ==
  CASE text.json = "malformed" ->
         [ok |-> FALSE, error |-> "SyntaxError", value |-> Absent]
    [] text.json = "null" ->
         [ok |-> TRUE, error |-> Null, value |-> Absent]
    [] OTHER ->
         [ok |-> TRUE, error |-> Null,
          value |-> [k \in {fields[i] : i \in 1..Len(fields)} |->
                       Property(text.members, k)]]

\* Deno.readTextFile(path)
readTextFile(file) ==
  IF file = NoFile THEN [ok |-> FALSE, error |-> "NotFound", text |-> Null]
  ELSE IF file.denied
    THEN [ok |-> FALSE, error |-> "PermissionDenied", text |-> Null]
  ELSE [ok |-> TRUE, error |-> Null, text |-> file.text]

\* Deno.writeTextFile(path, text): creates the file with the default mode or
\* replaces the text of the file that is there
writeTextFile(file, text) ==
  IF file = NoFile
    THEN [ok |-> TRUE, error |-> Null, file |-> DiskFile(text, "0644", FALSE)]
  ELSE IF file.denied
    THEN [ok |-> FALSE, error |-> "PermissionDenied", file |-> file]
  ELSE [ok |-> TRUE, error |-> Null, file |-> [file EXCEPT !.text = text]]

\* Deno.remove(path)
remove(file) ==
  IF file = NoFile THEN [ok |-> FALSE, error |-> "NotFound", file |-> file]
  ELSE IF file.denied
    THEN [ok |-> FALSE, error |-> "PermissionDenied", file |-> file]
  ELSE [ok |-> TRUE, error |-> Null, file |-> NoFile]

\* the value a call that throws does not return
Thrown == [thrown |-> TRUE]

\* Deno.chmod(path, 0o600)
chmod(file) ==
  IF file = NoFile THEN [ok |-> FALSE, error |-> "NotFound", file |-> file]
  ELSE IF file.denied
    THEN [ok |-> FALSE, error |-> "PermissionDenied", file |-> file]
  ELSE [ok |-> TRUE, error |-> Null, file |-> [file EXCEPT !.mode = "0600"]]

\* saveCredentials(credentials), from the moment ensureDir has resolved to
\* its next await or its end: the text is written, which is the end of the
\* call when the write throws and on Windows; elsewhere the call goes on to
\* await Deno.chmod (`pending`)
saveCredentials(file, credentials, os) ==
  LET w == writeTextFile(file, JSON_stringify(CredentialFields, credentials))
  IN [ok |-> w.ok, error |-> w.error, file |-> w.file,
      pending |-> w.ok /\ os # "windows"]

\* saveAuthMethod(config)
saveAuthMethod(file, config) ==
  LET w == writeTextFile(file, JSON_stringify(AuthMethodFields, config))
  IN IF ~w.ok THEN [ok |-> FALSE, error |-> w.error, file |-> file]
     ELSE [ok |-> TRUE, error |-> Null, file |-> w.file]

\* (variant) every failure of the read is taken for a missing file
loadCredentials_SwallowAll(file) ==
  LET r == readTextFile(file)
  IN IF ~r.ok THEN [ok |-> TRUE, error |-> Null, value |-> Absent]
     ELSE LET p == JSON_parse(r.text, CredentialFields)
          IN IF p.ok THEN [ok |-> TRUE, error |-> Null, value |-> p.value]
             ELSE [ok |-> TRUE, error |-> Null, value |-> Absent]

\* loadCredentials(): null for NotFound, any other error thrown again
loadCredentials(file) ==
  LET r == readTextFile(file)
  IN IF ~r.ok
       THEN IF r.error = "NotFound"
              THEN [ok |-> TRUE, error |-> Null, value |-> Absent]
              ELSE [ok |-> FALSE, error |-> r.error, value |-> Thrown]
     ELSE LET p == JSON_parse(r.text, CredentialFields)
          IN IF p.ok THEN [ok |-> TRUE, error |-> Null, value |-> p.value]
             ELSE [ok |-> FALSE, error |-> p.error, value |-> Thrown]

\* loadAuthMethod(): null for NotFound, any other error thrown again
loadAuthMethod(file) ==
  LET r == readTextFile(file)
  IN IF ~r.ok
       THEN IF r.error = "NotFound"
              THEN [ok |-> TRUE, error |-> Null, value |-> Absent]
              ELSE [ok |-> FALSE, error |-> r.error, value |-> Thrown]
     ELSE LET p == JSON_parse(r.text, AuthMethodFields)
          IN IF p.ok THEN [ok |-> TRUE, error |-> Null, value |-> p.value]
             ELSE [ok |-> FALSE, error |-> p.error, value |-> Thrown]

\* deleteCredentials() on the file as it is on disk: NotFound is passed
\* over, any other error thrown again
deleteCredentialsFile(file) ==
  LET r == remove(file)
  IN IF r.ok \/ r.error = "NotFound"
       THEN [ok |-> TRUE, error |-> Null, file |-> r.file]
       ELSE [ok |-> FALSE, error |-> r.error, file |-> r.file]

\* (variant) every error of the removal is thrown again
clearAuthMethod_Rethrow(file) ==
  LET r == remove(file)
  IN IF r.ok
       THEN [ok |-> TRUE, error |-> Null, file |-> r.file]
       ELSE [ok |-> FALSE, error |-> r.error, file |-> r.file]

\* clearAuthMethod(): NotFound is passed over, any other error thrown again
clearAuthMethod(file) ==
  LET r == remove(file)
  IN IF r.ok \/ r.error = "NotFound"
       THEN [ok |-> TRUE, error |-> Null, file |-> r.file]
       ELSE [ok |-> FALSE, error |-> r.error, file |-> r.file]

\* an operation on the files and what became of it
StoreCall(op, r, arg, value, before) ==
  [op |-> op, ok |-> r.ok, error |-> r.error, arg |-> arg, value |-> value,
   before |-> before]

\* saveCredentials(credentials) is called and awaits ensureDir; one call
\* is followed at a time
StoreSaveCredentials(credentials) ==
  /\ calls < MaxCalls
  /\ calls' = calls + 1
  /\ saving = Absent
  /\ saving' = Saving(credentials, "ensureDir", credDisk)
  /\ UNCHANGED <<storeVars, updateVars, pageVars, configVars>>
  /\ UNCHANGED <<loginVars, sharedVars, envKeyPath, authMethodFile,
                 keyFiles,
                 cachedClient, lastAccessToken, handlesBuilt, lastCall,
                 lastOk, prevOk>>

\* ensureDir has resolved and Deno.writeTextFile runs.  The call ends here
\* when the write throws and on Windows; elsewhere the text is in the file,
\* with the mode it had or the default one, while the call awaits
\* Deno.chmod.
StoreSaveWrites ==
  /\ pc = "Idle"
  /\ saving # Absent
  /\ saving.step = "ensureDir"
  /\ LET r == saveCredentials(credDisk, saving.credentials, hostOs)
     IN /\ credDisk' = r.file
        /\ saving' = IF r.pending THEN [saving EXCEPT !.step = "chmod"]
                                  ELSE Absent
        /\ storeCall' =
             StoreCall(IF r.pending THEN "writeTextFile"
                                    ELSE "saveCredentials",
                       r, saving.credentials, Absent,
                       IF r.pending THEN credDisk ELSE saving.before)
  /\ prevStoreCall' = storeCall
  /\ UNCHANGED <<methodDisk, hostOs, updateVars, pageVars, configVars>>
  /\ UNCHANGED <<loginVars, sharedVars, envKeyPath, authMethodFile,
                 keyFiles, calls,
                 cachedClient, lastAccessToken, handlesBuilt, lastCall,
                 lastOk, prevOk>>

\* Deno.chmod runs on what is at the path by then, and saveCredentials()
\* returns, or throws what chmod threw
StoreSaveReturns ==
  /\ pc = "Idle"
  /\ saving # Absent
  /\ saving.step = "chmod"
  /\ LET r == chmod(credDisk)
     IN /\ credDisk' = r.file
        /\ storeCall' = StoreCall("saveCredentials", r, saving.credentials,
                                  Absent, saving.before)
  /\ saving' = Absent
  /\ prevStoreCall' = storeCall
  /\ UNCHANGED <<methodDisk, hostOs, updateVars, pageVars, configVars>>
  /\ UNCHANGED <<loginVars, sharedVars, envKeyPath, authMethodFile,
                 keyFiles, calls,
                 cachedClient, lastAccessToken, handlesBuilt, lastCall,
                 lastOk, prevOk>>

StoreLoadCredentials ==
  /\ calls < MaxCalls
  /\ calls' = calls + 1
  /\ LET r == loadCredentials(credDisk)
     IN storeCall' = StoreCall("loadCredentials", r, Absent, r.value,
                               credDisk)
  /\ prevStoreCall' = storeCall
  /\ UNCHANGED <<credDisk, methodDisk, hostOs>>
  /\ UNCHANGED <<loginVars, sharedVars, utilVars, envKeyPath, authMethodFile,
                 keyFiles,
                 cachedClient, lastAccessToken, handlesBuilt, lastCall,
                 lastOk, prevOk>>

StoreDeleteCredentials ==
  /\ calls < MaxCalls
  /\ calls' = calls + 1
  /\ LET r == deleteCredentialsFile(credDisk)
     IN /\ credDisk' = r.file
        /\ storeCall' = StoreCall("deleteCredentials", r, Absent, Absent,
                                  credDisk)
  /\ prevStoreCall' = storeCall
  /\ UNCHANGED <<methodDisk, hostOs>>
  /\ UNCHANGED <<loginVars, sharedVars, utilVars, envKeyPath, authMethodFile,
                 keyFiles,
                 cachedClient, lastAccessToken, handlesBuilt, lastCall,
                 lastOk, prevOk>>

StoreSaveAuthMethod(config) ==
  /\ calls < MaxCalls
  /\ calls' = calls + 1
  /\ LET r == saveAuthMethod(methodDisk, config)
     IN /\ methodDisk' = r.file
        /\ storeCall' = StoreCall("saveAuthMethod", r, config, Absent,
                                  methodDisk)
  /\ prevStoreCall' = storeCall
  /\ UNCHANGED <<credDisk, hostOs>>
  /\ UNCHANGED <<loginVars, sharedVars, utilVars, envKeyPath, authMethodFile,
                 keyFiles,
                 cachedClient, lastAccessToken, handlesBuilt, lastCall,
                 lastOk, prevOk>>

StoreLoadAuthMethod ==
  /\ calls < MaxCalls
  /\ calls' = calls + 1
  /\ LET r == loadAuthMethod(methodDisk)
     IN storeCall' = StoreCall("loadAuthMethod", r, Absent, r.value,
                               methodDisk)
  /\ prevStoreCall' = storeCall
  /\ UNCHANGED <<credDisk, methodDisk, hostOs>>
  /\ UNCHANGED <<loginVars, sharedVars, utilVars, envKeyPath, authMethodFile,
                 keyFiles,
                 cachedClient, lastAccessToken, handlesBuilt, lastCall,
                 lastOk, prevOk>>

StoreClearAuthMethod ==
  /\ calls < MaxCalls
  /\ calls' = calls + 1
  /\ LET r == clearAuthMethod(methodDisk)
     IN /\ methodDisk' = r.file
        /\ storeCall' = StoreCall("clearAuthMethod", r, Absent, Absent,
                                  methodDisk)
  /\ prevStoreCall' = storeCall
  /\ UNCHANGED <<credDisk, hostOs>>
  /\ UNCHANGED <<loginVars, sharedVars, utilVars, envKeyPath, authMethodFile,
                 keyFiles,
                 cachedClient, lastAccessToken, handlesBuilt, lastCall,
                 lastOk, prevOk>>

\* the records a caller may save: with every field, and with an empty
\* refresh token and no user fields
SavedRecords ==
  {[accessToken |-> "A", refreshToken |-> "R", expiresAt |-> 900000,
    tokenType |-> "Bearer", scope |-> "s", userEmail |-> "e@x.com",
    userName |-> "E", userId |-> "1"],
   [accessToken |-> "B", refreshToken |-> "", expiresAt |-> 0,
    tokenType |-> "Bearer", scope |-> "s", userEmail |-> Null,
    userName |-> Null, userId |-> Null]}

\* the configs a caller may save
SavedConfigs ==
  {AuthMethod("oauth", Null, Null),
   AuthMethod("service-account", "/k1", "sa@x.iam")}

\* what may be at the path of credentials.json when the process starts
CredentialFilesOnDisk ==
  {NoFile} \cup
  {DiskFile(t, m, d) :
     t \in {MalformedText, NullText,
            JSON_stringify(CredentialFields,
              [accessToken |-> "Z", refreshToken |-> "RZ", expiresAt |-> 5,
               tokenType |-> "Bearer", scope |-> "z", userEmail |-> "z@x.com",
               userName |-> "Z", userId |-> "9"])},
     m \in {"0644"}, d \in BOOLEAN}

\* what may be at the path of auth-method.json when the process starts
MethodFilesOnDisk ==
  {NoFile} \cup
  {DiskFile(t, "0644", d) :
     t \in {MalformedText, NullText,
            JSON_stringify(AuthMethodFields, AuthMethod("adc", Null, "adc@x"))},
     d \in BOOLEAN}

InitStore ==
  /\ InitLoginVars
  /\ now = 0
  /\ credFile = Absent
  /\ credWrites = 0
  /\ envKeyPath = Null
  /\ authMethodFile = Absent
  /\ keyFiles = [p \in KeyPaths |-> KeyMissing]
  /\ cachedClient = Absent
  /\ lastAccessToken = Null
  /\ handlesBuilt = 0
  /\ calls = 0
  /\ lastCall = Absent
  /\ lastOk = Absent
  /\ prevOk = Absent
  /\ credDisk \in CredentialFilesOnDisk
  /\ methodDisk \in MethodFilesOnDisk
  /\ hostOs \in {"linux", "windows"}
  /\ storeCall = Absent
  /\ prevStoreCall = Absent
  /\ InitUtilVars

NextStore ==
  \/ \E credentials \in SavedRecords : StoreSaveCredentials(credentials)
  \/ StoreSaveWrites
  \/ StoreSaveReturns
  \/ StoreLoadCredentials
  \/ StoreDeleteCredentials
  \/ \E config \in SavedConfigs : StoreSaveAuthMethod(config)
  \/ StoreLoadAuthMethod
  \/ StoreClearAuthMethod

SpecStore == InitStore /\ [][NextStore]_vars

----------------------------------------------------------------------------
(* config/store.ts                                                         *)

\* the keys of a UserConfig the model follows: one with a default and one
\* without; a key that is missing or holds undefined reads as Null
ConfigFields == <<"outputFormat", "defaultAccountId">>
ConfigKeys == {"outputFormat", "defaultAccountId"}

DEFAULT_CONFIG == [outputFormat |-> "table", defaultAccountId |-> Null]

\* a key an object literal does not have
NotGiven == "<not given>"

\* { ...base, ...over }: a key `over` has, with undefined too, replaces
\* that of `base`
Spread(base, over) ==
  [k \in ConfigKeys |-> IF over[k] = NotGiven THEN base[k] ELSE over[k]]

\* { ...DEFAULT_CONFIG, ...JSON.parse(content) }: the parsed value has the
\* keys the text has, and has none when it is null
SpreadParsed(base, parsed) ==
  IF parsed = Absent THEN base
  ELSE [k \in ConfigKeys |-> IF parsed[k] = Null THEN base[k] ELSE parsed[k]]

\* loadConfig() with cachedConfig = cache: the value returned and
\* cachedConfig afterwards
loadConfig(cache, file) ==
  IF cache # Absent THEN [ok |-> TRUE, error |-> Null, value |-> cache,
                          cache |-> cache]
  ELSE LET r == readTextFile(file)
       IN IF ~r.ok
            THEN IF r.error = "NotFound"
                   THEN [ok |-> TRUE, error |-> Null,
                         value |-> DEFAULT_CONFIG, cache |-> DEFAULT_CONFIG]
                   ELSE [ok |-> FALSE, error |-> r.error, value |-> Thrown,
                         cache |-> cache]
          ELSE LET parsed == JSON_parse(r.text, ConfigFields)
               IN IF ~parsed.ok
                    THEN [ok |-> FALSE, error |-> parsed.error,
                          value |-> Thrown, cache |-> cache]
                    ELSE LET merged == SpreadParsed(DEFAULT_CONFIG,
                                                    parsed.value)
                         IN [ok |-> TRUE, error |-> Null, value |-> merged,
                             cache |-> merged]

\* saveConfig(config): cachedConfig is set after the write, and is left as
\* `cache` when the write throws
saveConfig(cache, file, config) ==
  LET w == writeTextFile(file, JSON_stringify(ConfigFields, config))
  IN IF ~w.ok THEN [ok |-> FALSE, error |-> w.error, file |-> file,
                    cache |-> cache]
     ELSE [ok |-> TRUE, error |-> Null, file |-> w.file, cache |-> config]

\* updateConfig(updates)
updateConfig(cache, file, updates) ==
  LET current == loadConfig(cache, file)
  IN IF ~current.ok
       THEN [ok |-> FALSE, error |-> current.error, file |-> file,
             cache |-> current.cache, value |-> Thrown]
       ELSE LET updated == Spread(current.value, updates)
                w == saveConfig(current.cache, file, updated)
            IN [ok |-> w.ok, error |-> w.error, file |-> w.file,
                cache |-> w.cache,
                value |-> IF w.ok THEN updated ELSE Thrown]

\* setConfigValue(key, value): updateConfig({ [key]: value })
setConfigValue(cache, file, key, value) ==
  updateConfig(cache, file,
               [k \in ConfigKeys |-> IF k = key THEN value ELSE NotGiven])

\* unsetConfigValue(key): the key is deleted from the object loadConfig()
\* returned, which is the cached one, and that object is saved
unsetConfigValue(cache, file, key) ==
  LET current == loadConfig(cache, file)
  IN IF ~current.ok
       THEN [ok |-> FALSE, error |-> current.error, file |-> file,
             cache |-> current.cache]
       ELSE LET config == [current.value EXCEPT ![key] = Null]
                w == saveConfig(config, file, config)
            IN [ok |-> w.ok, error |-> w.error, file |-> w.file,
                cache |-> w.cache]

\* clearConfig(): saveConfig({ ...DEFAULT_CONFIG })
clearConfig(cache, file) == saveConfig(cache, file, DEFAULT_CONFIG)

\* getConfigValue(key)
getConfigValue(cache, file, key) ==
  LET config == loadConfig(cache, file)
  IN [ok |-> config.ok, error |-> config.error, cache |-> config.cache,
      value |-> IF config.ok THEN config.value[key] ELSE Null]

\* what an operation on the configuration did. `value`: what it returned
ConfigCall(op, r, key, value) ==
  [op |-> op, ok |-> r.ok, error |-> r.error, key |-> key, value |-> value]

LoadConfig ==
  /\ calls < MaxCalls
  /\ calls' = calls + 1
  /\ LET r == loadConfig(cfgCache, cfgFile)
     IN /\ cfgCache' = r.cache
        /\ lastCall' = ConfigCall("loadConfig", r, Null, r.value)
  /\ UNCHANGED cfgFile
  /\ UNCHANGED <<saving, loginVars, sharedVars, storeVars, updateVars, pageVars,
                 envKeyPath, authMethodFile, keyFiles, cachedClient,
                 lastAccessToken, handlesBuilt, lastOk, prevOk>>

SaveConfig(config) ==
  /\ calls < MaxCalls
  /\ calls' = calls + 1
  /\ LET r == saveConfig(cfgCache, cfgFile, config)
     IN /\ cfgCache' = r.cache
        /\ cfgFile' = r.file
        /\ lastCall' = ConfigCall("saveConfig", r, Null, config)
  /\ UNCHANGED <<saving, loginVars, sharedVars, storeVars, updateVars, pageVars,
                 envKeyPath, authMethodFile, keyFiles, cachedClient,
                 lastAccessToken, handlesBuilt, lastOk, prevOk>>

UpdateConfig(updates) ==
  /\ calls < MaxCalls
  /\ calls' = calls + 1
  /\ LET r == updateConfig(cfgCache, cfgFile, updates)
     IN /\ cfgCache' = r.cache
        /\ cfgFile' = r.file
        /\ lastCall' = ConfigCall("updateConfig", r, Null, r.value)
  /\ UNCHANGED <<saving, loginVars, sharedVars, storeVars, updateVars, pageVars,
                 envKeyPath, authMethodFile, keyFiles, cachedClient,
                 lastAccessToken, handlesBuilt, lastOk, prevOk>>

SetConfigValue(key, value) ==
  /\ calls < MaxCalls
  /\ calls' = calls + 1
  /\ LET r == setConfigValue(cfgCache, cfgFile, key, value)
     IN /\ cfgCache' = r.cache
        /\ cfgFile' = r.file
        /\ lastCall' = ConfigCall("setConfigValue", r, key, value)
  /\ UNCHANGED <<saving, loginVars, sharedVars, storeVars, updateVars, pageVars,
                 envKeyPath, authMethodFile, keyFiles, cachedClient,
                 lastAccessToken, handlesBuilt, lastOk, prevOk>>

UnsetConfigValue(key) ==
  /\ calls < MaxCalls
  /\ calls' = calls + 1
  /\ LET r == unsetConfigValue(cfgCache, cfgFile, key)
     IN /\ cfgCache' = r.cache
        /\ cfgFile' = r.file
        /\ lastCall' = ConfigCall("unsetConfigValue", r, key, Null)
  /\ UNCHANGED <<saving, loginVars, sharedVars, storeVars, updateVars, pageVars,
                 envKeyPath, authMethodFile, keyFiles, cachedClient,
                 lastAccessToken, handlesBuilt, lastOk, prevOk>>

ClearConfig ==
  /\ calls < MaxCalls
  /\ calls' = calls + 1
  /\ LET r == clearConfig(cfgCache, cfgFile)
     IN /\ cfgCache' = r.cache
        /\ cfgFile' = r.file
        /\ lastCall' = ConfigCall("clearConfig", r, Null, Null)
  /\ UNCHANGED <<saving, loginVars, sharedVars, storeVars, updateVars, pageVars,
                 envKeyPath, authMethodFile, keyFiles, cachedClient,
                 lastAccessToken, handlesBuilt, lastOk, prevOk>>

GetConfigValue(key) ==
  /\ calls < MaxCalls
  /\ calls' = calls + 1
  /\ LET r == getConfigValue(cfgCache, cfgFile, key)
     IN /\ cfgCache' = r.cache
        /\ lastCall' = ConfigCall("getConfigValue", r, key, r.value)
  /\ UNCHANGED cfgFile
  /\ UNCHANGED <<saving, loginVars, sharedVars, storeVars, updateVars, pageVars,
                 envKeyPath, authMethodFile, keyFiles, cachedClient,
                 lastAccessToken, handlesBuilt, lastOk, prevOk>>

\* the configurations a caller may pass
UserConfigs == [outputFormat : {Null, "json"}, defaultAccountId : {Null, "1"}]

\* the updates a caller may pass: each key given, with a value or with
\* undefined, or not given
ConfigUpdates ==
  [outputFormat : {NotGiven, "json"}, defaultAccountId : {NotGiven, Null, "1"}]

\* what config.json may hold when the process starts
ConfigFilesOnDisk ==
  {NoFile, DiskFile(MalformedText, "0644", FALSE)}
  \cup {DiskFile(JSON_stringify(ConfigFields, c), "0644", denied) :
          c \in {[outputFormat |-> Null, defaultAccountId |-> Null],
                 [outputFormat |-> "json", defaultAccountId |-> "1"]},
          denied \in BOOLEAN}

InitConfig ==
  /\ InitLoginVars
  /\ now = 0
  /\ credFile = Absent
  /\ credWrites = 0
  /\ envKeyPath = Null
  /\ authMethodFile = Absent
  /\ keyFiles = [p \in KeyPaths |-> KeyMissing]
  /\ cachedClient = Absent
  /\ lastAccessToken = Null
  /\ handlesBuilt = 0
  /\ calls = 0
  /\ lastCall = Absent
  /\ lastOk = Absent
  /\ prevOk = Absent
  /\ InitStoreVars
  /\ InitUpdateVars
  /\ InitPageVars
  /\ cfgFile \in ConfigFilesOnDisk
  /\ cfgCache = Absent
  /\ saving = Absent

NextConfig ==
  \/ LoadConfig
  \/ \E config \in UserConfigs : SaveConfig(config)
  \/ \E updates \in ConfigUpdates : UpdateConfig(updates)
  \/ \E key \in ConfigKeys, value \in {"json", "1"} : SetConfigValue(key, value)
  \/ \E key \in ConfigKeys : UnsetConfigValue(key)
  \/ ClearConfig
  \/ \E key \in ConfigKeys : GetConfigValue(key)

SpecConfig == InitConfig /\ [][NextConfig]_vars

----------------------------------------------------------------------------
(* Properties of getAccessToken() and of the stored record                 *)

\* the last operation ran getAccessToken(): called on its own, or by
\* getTagManagerClient() when no other provider applies
IsTokenCall ==
  /\ lastCall # Absent
  /\ \/ lastCall.op = "getAccessToken"
     \/ (lastCall.op = "getTagManagerClient" /\ lastCall.oauthConsulted)

\* the fields of a record a refresh leaves alone: the five named by the
\* spec, and all but accessToken and expiresAt
SameFixedFields(a, b) ==
  /\ a.tokenType = b.tokenType
  /\ a.scope = b.scope
  /\ a.userEmail = b.userEmail
  /\ a.userName = b.userName
  /\ a.userId = b.userId

\* the last call found a record that needed a refresh and could ask for one
RefreshDue ==
  /\ lastCall.credBefore # Absent
  /\ needsRefresh(lastCall.credBefore, lastCall.at)
  /\ Truthy(lastCall.credBefore.refreshToken)

\* C13: a getAccessToken() that finds a record with needsRefresh true and a
\* non-empty refreshToken, and gets a success answer, leaves a record with
\* accessToken and expiresAt = now + expires_in * 1000 from the answer,
\* refreshToken the answer's when it carries one and the previous one
\* otherwise, and every other field as before, saved once, and returns the
\* new access token; with needsRefresh false no request is sent, nothing is
\* saved and the stored access token is returned.
C13_RefreshRewrites ==
  IsTokenCall =>
    LET before == lastCall.credBefore
        body == lastCall.answer.body
    IN /\ (RefreshDue /\ lastCall.answer.kind = "ok") =>
            /\ lastCall.ok
            /\ lastCall.requests = 1
            /\ lastCall.saved = 1
            /\ lastCall.token = body.access_token
            /\ credFile.accessToken = body.access_token
            /\ credFile.expiresAt = lastCall.at + body.expires_in * 1000
            /\ credFile.refreshToken =
                 (IF body.refresh_token \in {Null, ""}
                    THEN before.refreshToken ELSE body.refresh_token)
            /\ SameFixedFields(credFile, before)
       /\ (before # Absent /\ ~needsRefresh(before, lastCall.at)) =>
            /\ lastCall.ok
            /\ lastCall.requests = 0
            /\ lastCall.saved = 0
            /\ lastCall.answer = NoAnswer
            /\ lastCall.token = before.accessToken
            /\ credFile = before

\* witness of C13: a refresh some time after the start whose answer left
\* out the refresh token and stated five minutes: the record keeps R and
\* carries the new access token
C13_Witness ==
  /\ IsTokenCall
  /\ RefreshDue
  /\ lastCall.at > 0
  /\ lastCall.answer.kind = "ok"
  /\ lastCall.answer.body.refresh_token = Null
  /\ lastCall.answer.body.expires_in = 300
  /\ lastCall.credBefore.accessToken = "A"
  /\ credFile.accessToken = "B"
  /\ credFile.refreshToken = "R"
  /\ credFile.expiresAt = lastCall.at + 300000

\* a step that changes a stored record into another
RecordChanges ==
  credFile # Absent /\ credFile' # Absent /\ credFile' # credFile

\* C14 as stated: between its persisting and its deletion, the only change
\* of a stored record is a refresh that replaces accessToken and extends
\* expiresAt; refreshToken, tokenType, scope and the user fields never
\* change and expiresAt never decreases.  Fails: a refresh stores the
\* refresh token of the answer, and a lifetime shorter than the refresh
\* buffer moves expiresAt back.
C14_OnlyTokenAndExpiry ==
  [][RecordChanges =>
       /\ IsTokenCall' /\ lastCall'.ok /\ lastCall'.refreshSent
       /\ credFile'.refreshToken = credFile.refreshToken
       /\ SameFixedFields(credFile', credFile)
       /\ credFile'.expiresAt >= credFile.expiresAt]_vars

\* C14 (amended): between its persisting and its deletion, the only change
\* of a stored record is a successful refresh: it replaces accessToken, sets
\* expiresAt to the time of the refresh + expires_in * 1000 (not lower than
\* before when the lifetime is at least the refresh buffer) and replaces
\* refreshToken when the answer carries a non-empty one; tokenType, scope,
\* userEmail, userName and userId never change.  getAuthStatus(), the
\* service-account and ADC logins and a failing call leave the record as it
\* is, and only logout() removes it.
C14_OnlyRefreshRewrites ==
  [][/\ RecordChanges =>
          /\ IsTokenCall' /\ lastCall'.ok /\ lastCall'.refreshSent
          /\ lastCall'.credBefore = credFile
          /\ LET body == lastCall'.answer.body
             IN /\ credFile'.accessToken = body.access_token
                /\ credFile'.expiresAt = now + body.expires_in * 1000
                /\ body.expires_in * 1000 >= RefreshBufferMs =>
                     credFile'.expiresAt >= credFile.expiresAt
                /\ credFile'.refreshToken \in
                     {credFile.refreshToken, body.refresh_token}
                /\ Truthy(body.refresh_token) =>
                     credFile'.refreshToken = body.refresh_token
          /\ Truthy(credFile'.refreshToken)
          /\ SameFixedFields(credFile', credFile)
     /\ (credFile # Absent /\ credFile' = Absent) => lastCall'.op = "logout"
     /\ credFile = Absent => credFile' = Absent]_vars

\* witness of C14: a record that was refreshed twice, after a login with a
\* service-account key in between had changed the method
C14_Witness ==
  /\ credWrites = 2
  /\ credFile # Absent
  /\ credFile.refreshToken = "R2"
  /\ credFile.userEmail = "e@x.com"
  /\ credFile.scope = "s"
  /\ authMethodFile # Absent

\* C15: a getAccessToken() that fails leaves the stored record as it was,
\* saves nothing and sends at most one request: with no record it fails
\* with the not-authenticated message and no request; with needsRefresh true
\* and an empty refreshToken with the instruction to log in again and no
\* request; with a refresh that the token endpoint answers with a
\* non-success status (or that fails outright) after exactly one request,
\* with that failure as its error.  These are the only failures.
C15_FailureLeavesRecord ==
  IsTokenCall =>
    LET before == lastCall.credBefore
    IN /\ lastCall.requests \in {0, 1}
       /\ ~lastCall.ok =>
            /\ credFile = before
            /\ lastCall.saved = 0
            /\ lastCall.token = Null
            /\ \/ before = Absent
               \/ (needsRefresh(before, lastCall.at)
                   /\ ~Truthy(before.refreshToken))
               \/ (RefreshDue /\ lastCall.answer.kind # "ok")
       /\ before = Absent =>
            /\ ~lastCall.ok
            /\ lastCall.error = MsgNotAuthenticated
            /\ lastCall.requests = 0
       /\ (before # Absent /\ needsRefresh(before, lastCall.at)
           /\ ~Truthy(before.refreshToken)) =>
            /\ ~lastCall.ok
            /\ lastCall.error = MsgSessionExpired
            /\ lastCall.requests = 0
            /\ lastCall.answer = NoAnswer
       /\ (RefreshDue /\ lastCall.answer.kind = "http_error") =>
            /\ ~lastCall.ok
            /\ lastCall.requests = 1
            /\ lastCall.error =
                 "Failed to refresh token: " \o lastCall.answer.text
       /\ (RefreshDue /\ lastCall.answer.kind = "network_error") =>
            /\ ~lastCall.ok
            /\ lastCall.requests = 1
            /\ lastCall.error = lastCall.answer.text

\* witness of C15: a refresh that the token endpoint refused, some time
\* after the start; the record with its refresh token is still stored
C15_Witness ==
  /\ IsTokenCall
  /\ ~lastCall.ok
  /\ lastCall.at > 0
  /\ lastCall.answer.kind = "http_error"
  /\ lastCall.requests = 1
  /\ credFile # Absent
  /\ credFile = lastCall.credBefore
  /\ credFile.refreshToken = "R"

\* C27: whenever getAccessToken() returns a token, on its own or for the
\* client, the token is the accessToken of the record stored at that
\* moment, with or without a refresh, and the client handle returned for
\* it carries that token.
C27_TokenIsStored ==
  (IsTokenCall /\ lastCall.ok) =>
    /\ credFile # Absent
    /\ lastCall.token = credFile.accessToken
    /\ lastCall.op = "getTagManagerClient" =>
         /\ cachedClient # Absent
         /\ cachedClient.bearer = credFile.accessToken
         /\ lastAccessToken = credFile.accessToken

\* the client was handed out after a refresh that replaced token A by B,
\* with a handle for A built before
C27_Witness ==
  /\ IsTokenCall
  /\ lastCall.op = "getTagManagerClient"
  /\ lastCall.ok /\ lastCall.refreshSent
  /\ lastCall.credBefore.accessToken = "A"
  /\ credFile.accessToken = "B"
  /\ cachedClient.bearer = "B"
  /\ handlesBuilt = 2

\* C17: isExpired(record) is true exactly when now >= expiresAt - 300000 and
\* needsRefresh(record) exactly when now >= expiresAt - 600000 (to the
\* millisecond); isExpired implies needsRefresh; a record that expires seven
\* minutes from now is not expired and needs a refresh; getAuthStatus()
\* reports the same needsRefresh.
C17_BufferedExpiry ==
  /\ (lastCall # Absent /\ lastCall.op = "expiry") =>
       /\ lastCall.isExpired <=> (lastCall.at >= lastCall.expiresAt - 300000)
       /\ lastCall.needsRefresh <=>
            (lastCall.at >= lastCall.expiresAt - 600000)
       /\ lastCall.isExpired => lastCall.needsRefresh
       /\ lastCall.expiresAt = lastCall.at + 420000 =>
            ~lastCall.isExpired /\ lastCall.needsRefresh
  /\ (lastCall # Absent /\ lastCall.op = "getAuthStatus"
      /\ lastCall.credBefore # Absent) =>
       /\ lastCall.status.authenticated
       /\ lastCall.status.needsRefresh <=>
            (lastCall.at >= lastCall.credBefore.expiresAt - 600000)

\* witness of C17: a record that expires in exactly five minutes, checked
\* some minutes after the start: expired, and in need of a refresh
C17_Witness ==
  /\ lastCall # Absent
  /\ lastCall.op = "expiry"
  /\ lastCall.at > 0
  /\ lastCall.expiresAt = lastCall.at + 300000
  /\ lastCall.isExpired
  /\ lastCall.needsRefresh

\* C16: a record created by login() or rewritten by a refresh has expiresAt
\* strictly greater than the time at which it is created, whatever
\* lifetime the token endpoint states (0 included).
C16_ExpiresInFuture ==
  /\ pc = "Persisted" => credFile.expiresAt > now
  /\ (IsTokenCall /\ lastCall.ok /\ lastCall.refreshSent) =>
       credFile.expiresAt > lastCall.at

----------------------------------------------------------------------------
(* Properties of the files on disk                                         *)

IsStoreOp(call, op) == call # Absent /\ call.op = op

\* two records agree field for field
SameFields(a, b, fields) ==
  \A i \in 1..Len(fields) : a[fields[i]] = b[fields[i]]

\* C18: saveCredentials(r) followed by loadCredentials() returns a record
\* equal to r field for field (an empty refreshToken stays empty, a user
\* field that is absent stays absent), and a save replaces the file whole:
\* what is on disk after it reads back as r whatever was there before,
\* every member written being a field of r.
C18_SaveLoadRoundTrip ==
  /\ (/\ IsStoreOp(storeCall, "loadCredentials")
      /\ IsStoreOp(prevStoreCall, "saveCredentials")
      /\ prevStoreCall.ok) =>
       /\ storeCall.ok
       /\ storeCall.value # Absent
       /\ SameFields(storeCall.value, prevStoreCall.arg, CredentialFields)
  /\ (IsStoreOp(storeCall, "saveCredentials") /\ storeCall.ok) =>
       /\ credDisk # NoFile
       /\ credDisk.text.json = "object"
       /\ \A i \in 1..Len(credDisk.text.members) :
            LET m == credDisk.text.members[i]
            IN m[2] = storeCall.arg[m[1]]
       /\ LET back == loadCredentials(credDisk)
          IN /\ back.ok
             /\ back.value # Absent
             /\ SameFields(back.value, storeCall.arg, CredentialFields)

\* witness of C18: a record with an empty refresh token and no user fields
\* was saved over a file that held a record with all of them, and loaded
C18_Witness ==
  /\ IsStoreOp(storeCall, "loadCredentials")
  /\ IsStoreOp(prevStoreCall, "saveCredentials")
  /\ prevStoreCall.ok
  /\ prevStoreCall.before # NoFile
  /\ prevStoreCall.before.text.json = "object"
  /\ Property(prevStoreCall.before.text.members, "userEmail") = "z@x.com"
  /\ storeCall.ok
  /\ storeCall.value.accessToken = "B"
  /\ storeCall.value.refreshToken = ""
  /\ storeCall.value.userEmail = Null
  /\ storeCall.value.expiresAt = 0

\* what a removal and the load that matches it leave behind
RemovalIdempotent(op, loadOp, disk) ==
  /\ IsStoreOp(storeCall, op) =>
       /\ storeCall.before = NoFile =>
            storeCall.ok /\ storeCall.error = Null /\ disk = NoFile
       /\ storeCall.ok => disk = NoFile
       /\ ~storeCall.ok => disk = storeCall.before /\ disk # NoFile
       /\ (IsStoreOp(prevStoreCall, op) /\ prevStoreCall.ok) =>
            storeCall.ok /\ storeCall.before = NoFile
  /\ (/\ IsStoreOp(storeCall, loadOp)
      /\ IsStoreOp(prevStoreCall, op)
      /\ prevStoreCall.ok) =>
       storeCall.ok /\ storeCall.value = Absent

\* C19: deleteCredentials() and clearAuthMethod() succeed and leave the
\* file absent when it is absent already; a call that follows a successful
\* one succeeds; after a successful call the file is absent and the
\* matching load returns the absent value.
C19_RemovalIdempotent ==
  /\ RemovalIdempotent("deleteCredentials", "loadCredentials", credDisk)
  /\ RemovalIdempotent("clearAuthMethod", "loadAuthMethod", methodDisk)

\* witness of C19: clearAuthMethod() twice in a row, the first call having
\* removed a file, the second finding none
C19_Witness ==
  /\ IsStoreOp(storeCall, "clearAuthMethod")
  /\ IsStoreOp(prevStoreCall, "clearAuthMethod")
  /\ prevStoreCall.before # NoFile
  /\ prevStoreCall.ok
  /\ storeCall.before = NoFile
  /\ storeCall.ok
  /\ methodDisk = NoFile

\* the file can be read
Readable(file) == file # NoFile /\ ~file.denied

\* what every load does with a failure, and to the file
LoadPropagates(loadOp, disk) ==
  IsStoreOp(storeCall, loadOp) =>
    LET before == storeCall.before
    IN /\ disk = before
       /\ (before # NoFile /\ before.denied) =>
            /\ ~storeCall.ok
            /\ storeCall.error = "PermissionDenied"
       /\ (Readable(before) /\ before.text = MalformedText) =>
            /\ ~storeCall.ok
            /\ storeCall.error = "SyntaxError"
       /\ ~storeCall.ok => storeCall.value = Thrown
       /\ (Readable(before) /\ before.text.json = "object") =>
            storeCall.ok /\ storeCall.value # Absent

\* C20 as stated: a load returns the absent value if and only if the file
\* does not exist; a read or parse failure is thrown, never reported as
\* absent; no load changes the file.  Fails: a file whose text is the JSON
\* value null is there and loads as the absent value.
C20_AbsentIffNoFile ==
  /\ LoadPropagates("loadCredentials", credDisk)
  /\ LoadPropagates("loadAuthMethod", methodDisk)
  /\ (IsStoreOp(storeCall, "loadCredentials")
      \/ IsStoreOp(storeCall, "loadAuthMethod")) =>
       ((storeCall.ok /\ storeCall.value = Absent)
          <=> storeCall.before = NoFile)

\* C20 (amended): a load returns the absent value if and only if the file
\* does not exist or can be read and holds the JSON value null; a read or
\* parse failure (permission denied, malformed JSON) is thrown, never
\* reported as absent; no load changes the file.
C20_AbsentOnlyWithoutRecord ==
  /\ LoadPropagates("loadCredentials", credDisk)
  /\ LoadPropagates("loadAuthMethod", methodDisk)
  /\ (IsStoreOp(storeCall, "loadCredentials")
      \/ IsStoreOp(storeCall, "loadAuthMethod")) =>
       LET before == storeCall.before
       IN /\ before = NoFile => storeCall.ok
          /\ (storeCall.ok /\ storeCall.value = Absent) <=>
               \/ before = NoFile
               \/ (Readable(before) /\ before.text = NullText)

\* witness of C20: loadAuthMethod() on a file that is not JSON threw the
\* SyntaxError, after loadCredentials() on a file it may not read had
\* thrown as well; both files are still there
C20_Witness ==
  /\ IsStoreOp(storeCall, "loadAuthMethod")
  /\ ~storeCall.ok
  /\ storeCall.error = "SyntaxError"
  /\ methodDisk # NoFile
  /\ methodDisk.text = MalformedText
  /\ IsStoreOp(prevStoreCall, "loadCredentials")
  /\ ~prevStoreCall.ok
  /\ prevStoreCall.error = "PermissionDenied"
  /\ credDisk # NoFile
  /\ credDisk.denied

----------------------------------------------------------------------------
(* Properties of the alternate credential providers                        *)

IsSaLogin == lastCall # Absent /\ lastCall.op = "loginWithServiceAccount"

\* C21: loginWithServiceAccount(path) writes the AuthMethodConfig only after
\* the key file validated and the token mint resolved, and what it writes is
\* method service-account with serviceAccountPath = path and the client
\* email of the key; when validation or the mint fails the saved
\* AuthMethodConfig is the one from before the call; in every case the
\* OAuth CredentialRecord is the one from before the call.
C21_SaLoginWritesLast ==
  IsSaLogin =>
    /\ credFile = lastCall.credBefore
    /\ lastCall.ok <=> (lastCall.validated /\ lastCall.minted)
    /\ IF lastCall.validated /\ lastCall.minted
         THEN authMethodFile =
                AuthMethod("service-account", lastCall.keyPath,
                           keyFiles[lastCall.keyPath].client_email)
         ELSE authMethodFile = lastCall.savedBefore

\* a login whose mint failed after the key validated, over a saved
\* configuration of another method and a stored OAuth record
C21_Witness ==
  /\ IsSaLogin
  /\ lastCall.validated /\ ~lastCall.minted
  /\ lastCall.savedBefore # Absent
  /\ lastCall.savedBefore.method = "adc"
  /\ credFile # Absent

IsValidation ==
  lastCall # Absent /\ lastCall.op = "validateServiceAccountKey"

\* a key file that exists, parses as JSON, has type service_account and
\* non-empty private_key and client_email
WellFormedKey(f) ==
  /\ f.kind = "json"
  /\ f.type = "service_account"
  /\ Truthy(f.private_key)
  /\ Truthy(f.client_email)

\* C22: validateServiceAccountKey(path) returns the parsed key exactly when
\* the file exists, parses as JSON, has type service_account and non-empty
\* private_key and client_email; every other content fails with the
\* file-not-found error, with the invalid-JSON error, or with one of the two
\* invalid-key-file errors, each on its own kind of content.
C22_KeyValidationTotal ==
  IsValidation =>
    LET f == keyFiles[lastCall.keyPath]
        p == lastCall.keyPath
    IN /\ lastCall.ok <=> WellFormedKey(f)
       /\ lastCall.ok => lastCall.key = f
       /\ ~lastCall.ok =>
            /\ lastCall.error \in {MsgKeyNotFound(p), MsgKeyBadJson(p),
                                   MsgKeyWrongType, MsgKeyNoFields}
            /\ lastCall.error = MsgKeyNotFound(p) <=> f.kind = "missing"
            /\ lastCall.error = MsgKeyBadJson(p) <=> f.kind = "badjson"

----------------------------------------------------------------------------
(* Properties of the gtm auth commands                                     *)

IsLogoutCommand == lastCall # Absent /\ lastCall.op = "auth logout"

\* C23: after the `gtm auth logout` command, whatever AuthMethodConfig was
\* saved and whether or not an OAuth CredentialRecord was stored, the
\* auth-method file and the credential file are both absent.
C23_LogoutClearsBoth ==
  IsLogoutCommand => (authMethodFile = Absent /\ credFile = Absent)

IsStatusCommand == lastCall # Absent /\ lastCall.op = "auth status"

\* the method getTagManagerClient() took its token from, or tried to
MethodTaken(call) ==
  IF call.oauthConsulted THEN "oauth"
  ELSE IF call.sa.kind = "token" THEN call.sa.method
  ELSE Null

\* C24: when getTagManagerClient() runs in the state `gtm auth status` has
\* just reported on, it falls through to OAuth exactly when the reported
\* method is oauth, a token it resolves comes through the reported method,
\* and where status reported authenticated = false it fails with the
\* not-authenticated error.
C24_StatusMatchesClient ==
  [][(IsStatusCommand /\ lastCall'.op = "getTagManagerClient") =>
       /\ lastCall'.oauthConsulted <=> (lastCall.status.method = "oauth")
       /\ lastCall'.ok => MethodTaken(lastCall') = lastCall.status.method
       /\ ~lastCall.status.authenticated =>
            (~lastCall'.ok /\ lastCall'.error = MsgNotAuthenticated)]_vars

\* status has reported with the environment variable set over a saved adc
\* method and a stored OAuth record, and the client can be asked for next
C24_Witness ==
  /\ IsStatusCommand
  /\ calls < MaxCalls
  /\ Truthy(envKeyPath)
  /\ authMethodFile # Absent
  /\ authMethodFile.method = "adc"
  /\ credFile # Absent
  /\ keyFiles[envKeyPath] = KeyValid
  /\ lastCall.status.method = "service-account"

\* the last call was getAccessToken(), on its own or through the client,
\* and it failed with the session-expired error
SessionExpired ==
  /\ lastCall # Absent
  /\ lastCall.op \in {"getAccessToken", "getTagManagerClient"}
  /\ lastCall.error = MsgSessionExpired

\* C28: when getAccessToken() has failed with the session-expired error
\* that tells the user to run 'gtm auth login' again, the `gtm auth login`
\* command run next starts the interactive OAuth flow, and with a
\* successful authorization it stores a fresh record with which
\* getAccessToken() succeeds.
C28_LoginAfterExpiry ==
  [][(SessionExpired /\ lastCall'.op = "auth login") =>
       /\ lastCall'.started
       /\ lastCall'.flow.kind = "granted" =>
            /\ credFile' # Absent
            /\ credFile' # credFile
            /\ getAccessToken(credFile', now', NoAnswer).ok]_vars

----------------------------------------------------------------------------
(* Properties of the update check                                          *)

IsUpdateCheck == lastCall # Absent /\ lastCall.op = "checkForUpdate"

\* a < b as versions: at the first part in which they differ, a part that
\* is missing or not a number counting as 0, a has the lower number
VersionLess(a, b) ==
  \E i \in 1..Max(Len(a.parts), Len(b.parts)) :
    /\ PartOrZero(a.parts, i) < PartOrZero(b.parts, i)
    /\ \A j \in 1..(i - 1) : PartOrZero(a.parts, j) = PartOrZero(b.parts, j)

\* a cache that can be read exists and its lastCheck is less than 24 hours
\* before t
FreshCache(file, t) ==
  /\ file \notin {Absent, MalformedCache}
  /\ t - file.lastCheck < CHECK_INTERVAL_MS

\* what every call of checkForUpdate() does, whether or not the cache file
\* can be written and whatever other calls are in flight: it fetches
\* exactly when the cache it read is not fresh and otherwise answers with
\* the version it read; updateAvailable is true exactly when a latest
\* version is known and the current version is lower
UpdateCheckAnswers ==
  IsUpdateCheck =>
    /\ lastCall.fetched <=> ~FreshCache(lastCall.cacheBefore, lastCall.at)
    /\ ~lastCall.fetched =>
         lastCall.latestVersion = lastCall.cacheBefore.latestVersion
    /\ lastCall.updateAvailable <=>
         /\ lastCall.latestVersion # Absent
         /\ VersionLess(lastCall.currentVersion, lastCall.latestVersion)
    /\ lastCall.currentVersion = CurrentVersion

\* any two fetches of the automatic check are at least 24 hours apart,
\* whatever forced checks (gtm upgrade) were made in between
OncePerInterval ==
  \A i, j \in 1..Len(updateFetches) :
    (/\ i < j
     /\ updateFetches[i].by = "checkForUpdate"
     /\ updateFetches[j].by = "checkForUpdate")
    => updateFetches[j].at - updateFetches[i].at >= CHECK_INTERVAL_MS

\* the record a check that fetched and has returned saved
SavedRecord ==
  [lastCheck |-> lastCall.at, latestVersion |-> lastCall.latestVersion]

\* no call has written the file since the last call returned
NoWriteSinceReturn ==
  \A i \in 1..Len(updatePending) : updatePending[i].step # "written"

\* every check has returned, and the last request was sent by the
\* automatic check
LastFetchWasAutomatic ==
  /\ updatePending = <<>>
  /\ updateFetches # <<>>
  /\ updateFetches[Len(updateFetches)].by = "checkForUpdate"

\* C25 as stated: the check fetches only without a fresh cache and answers
\* from the cache otherwise, at most once per 24 hours, and after every
\* fetch, successful or failed, the cache holds lastCheck = the time of the
\* check.  Fails: a cache file that cannot be written is left as it was and
\* every run fetches again; and of two runs of the CLI whose checks overlap
\* both fetch, and the one that writes last leaves its record, which may be
\* the older one, also after the other has returned.
C25_CacheAfterEveryFetch ==
  /\ UpdateCheckAnswers
  /\ OncePerInterval
  /\ (IsUpdateCheck /\ lastCall.fetched /\ NoWriteSinceReturn) =>
       updateCache = SavedRecord
  /\ LastFetchWasAutomatic =>
       /\ updateCache \notin {Absent, MalformedCache}
       /\ updateCache.lastCheck = updateFetches[Len(updateFetches)].at

\* C25 (amended): as above, where the cache file can be written and no
\* update check is called while another one has not returned; a check that
\* answers from the cache then leaves the file as it read it.  Where the
\* file cannot be written the failure is swallowed, the file is left as it
\* was and every run fetches again; where checks overlap, what holds is
\* what each call does by itself (when it fetches and what it answers).
C25_CacheWhenWritable ==
  /\ UpdateCheckAnswers
  /\ (cacheWritable /\ ~updateOverlap) => OncePerInterval
  /\ (/\ IsUpdateCheck /\ lastCall.fetched /\ NoWriteSinceReturn
      /\ cacheWritable /\ ~updateOverlap) =>
       updateCache = SavedRecord
  /\ (/\ IsUpdateCheck /\ NoWriteSinceReturn
      /\ ~lastCall.fetched \/ ~cacheWritable
      /\ ~cacheWritable \/ ~updateOverlap) =>
       updateCache = lastCall.cacheBefore
  /\ (cacheWritable /\ ~updateOverlap /\ LastFetchWasAutomatic) =>
       /\ updateCache \notin {Absent, MalformedCache}
       /\ updateCache.lastCheck = updateFetches[Len(updateFetches)].at
  /\ (cacheWritable /\ ~updateOverlap) =>
       \A i \in 1..Len(updatePending) :
         updatePending[i].step = "written" =>
           updateCache = updatePending[i].record
  /\ ~cacheWritable =>
       \A i \in 1..Len(updatePending) :
         (/\ updatePending[i].op = "checkForUpdate"
          /\ updatePending[i].step # "load") =>
           updatePending[i].cacheBefore = updateCache

\* an automatic check that fetched, a forced check after it had returned,
\* and a second automatic fetch exactly 24 hours after the first one, that
\* failed and left a cache without a version
C25_Witness ==
  /\ IsUpdateCheck
  /\ lastCall.fetched
  /\ cacheWritable
  /\ ~updateOverlap
  /\ updatePending = <<>>
  /\ Len(updateFetches) = 3
  /\ updateFetches[1].by = "checkForUpdate"
  /\ updateFetches[2].by = "forceCheckForUpdate"
  /\ updateFetches[3].by = "checkForUpdate"
  /\ updateFetches[3].at - updateFetches[1].at = CHECK_INTERVAL_MS
  /\ lastCall.latestVersion = Absent
  /\ updateCache = [lastCheck |-> lastCall.at, latestVersion |-> Absent]
  /\ ~lastCall.updateAvailable

----------------------------------------------------------------------------
(* Properties of paginateAll()                                             *)

\* the items of the pages, page after page
RECURSIVE ItemsOf(_)
ItemsOf(pages) ==
  IF pages = <<>> THEN <<>>
  ELSE (IF Head(pages).hasKey THEN Head(pages).items ELSE <<>>)
       \o ItemsOf(Tail(pages))

\* the page has no nextPageToken (left out or empty)
IsLastPage(page) == page.nextPageToken \in {Null, ""}

\* C29: paginateAll() calls listFn first with no page token and then once
\* per returned nextPageToken, with the token of the page before; it stops
\* at the first page without a nextPageToken, and exactly then returns,
\* with the items of all pages in page order, a page without the result key
\* adding nothing; when a call of listFn fails the error is passed on and
\* nothing is returned.
C29_PaginateAll ==
  pgStatus # "idle" =>
    /\ Len(pgCalls) = Len(pgPages) + (IF pgStatus = "failed" THEN 1 ELSE 0)
    /\ Len(pgCalls) >= 1 => pgCalls[1] = Null
    /\ \A i \in 2..Len(pgCalls) : pgCalls[i] = pgPages[i - 1].nextPageToken
    /\ \A i \in 1..(Len(pgPages) - 1) : ~IsLastPage(pgPages[i])
    /\ pgStatus = "done" <=>
         (pgPages # <<>> /\ IsLastPage(pgPages[Len(pgPages)]))
    /\ pgStatus = "done" =>
         /\ lastCall # Absent
         /\ lastCall.ok
         /\ lastCall.result = ItemsOf(pgPages)
    /\ pgStatus = "failed" =>
         /\ lastCall # Absent
         /\ ~lastCall.ok
         /\ lastCall.error = ListError.text
    /\ pgStatus = "running" => lastCall = Absent

\* three pages were fetched, the second without the result key, and the
\* items of the first and the third came back in that order
C29_Witness ==
  /\ pgStatus = "done"
  /\ pgCalls = <<Null, "t1", "t2">>
  /\ ~pgPages[2].hasKey
  /\ lastCall.result = <<"b", "c", "a">>

----------------------------------------------------------------------------
(* Properties of the configuration store                                   *)

\* C30: after any sequence of loadConfig, saveConfig, updateConfig,
\* setConfigValue, unsetConfigValue and clearConfig in one process, the
\* cached configuration is what a new process would load from the file
\* (the defaults merged with its content), and a getConfigValue(k) returns
\* what it would return in a new process.
C30_CacheMatchesFreshLoad ==
  cfgCache # Absent =>
    LET fresh == loadConfig(Absent, cfgFile)
    IN /\ fresh.ok
       /\ fresh.value = cfgCache
       /\ (lastCall.op = "getConfigValue" /\ lastCall.ok) =>
            lastCall.value = fresh.value[lastCall.key]

====
